---------------------------- MODULE Spec2Model ----------------------------
(***************************************************************************)
(* Model of the AI website generator backend, in its two variants:         *)
(*   "server"  : src/server/server.js   (OpenRouter over HTTP, 4 models)   *)
(*   "part003" : src/unnamed/part_003   (Gemini SDK, 3 models, timeout)    *)
(*                                                                         *)
(* JavaScript strings are sequences of one-character strings, so that the  *)
(* regular expressions of the source are computed character by character.  *)
(* JSON values are records [t, s, n, a]: t the type, s the string value,   *)
(* n the number (or 0/1 for a boolean), a the elements of an array.        *)
(* The backquote character is written BQ: the lexer of TLA+ does not take  *)
(* it in a string. A character (UTF-16 code unit) outside ASCII, and a     *)
(* control character that has no escape in a TLA+ string, is written by    *)
(* its code point: "U+00A0" is the one character NO-BREAK SPACE.           *)
(***************************************************************************)
EXTENDS Integers, Sequences, FiniteSets, TLC

(***************************************************************************)
(* Characters and strings                                                  *)
(***************************************************************************)
BQ == "backquote"

\* the characters of \s and of String.prototype.trim: WhiteSpace and LineTerminator
WS ==
  {"\t", "\n", "U+000B", "\f", "\r", " ", "U+00A0", "U+1680",
   "U+2000", "U+2001", "U+2002", "U+2003", "U+2004", "U+2005", "U+2006", "U+2007",
   "U+2008", "U+2009", "U+200A", "U+2028", "U+2029", "U+202F", "U+205F", "U+3000",
   "U+FEFF"}

IsWs(c) == c \in WS

UpperChars == <<"A","B","C","D","E","F","G","H","I","J","K","L","M","N","O","P","Q","R","S","T","U","V","W",
      "X","Y","Z">>

LowerChars == <<"a","b","c","d","e","f","g","h","i","j","k","l","m","n","o","p","q","r","s","t","u","v","w",
      "x","y","z">>

DigitChars == <<"0","1","2","3","4","5","6","7","8","9">>

IsUpper(c) == \E i \in 1..26 : UpperChars[i] = c

IsLowerAlpha(c) == \E i \in 1..26 : LowerChars[i] = c

IsDigit(c) == \E i \in 1..10 : DigitChars[i] = c

\* A-Z to a-z. It is the case folding of a regex with the flag /i and without the
\* flag /u, where a character outside ASCII never folds to an ASCII letter.
toLowerChar(c) ==
  IF IsUpper(c) THEN LowerChars[CHOOSE i \in 1..26 : UpperChars[i] = c] ELSE c

\* s has pat at position i (exact characters)
MatchAt(s, i, pat) ==
  /\ i >= 1
  /\ i + Len(pat) - 1 <= Len(s)
  /\ \A k \in 1..Len(pat) : s[i + k - 1] = pat[k]

\* s has pat at position i under the regex flag /i (pat is lower case)
MatchAtCI(s, i, pat) ==
  /\ i >= 1
  /\ i + Len(pat) - 1 <= Len(s)
  /\ \A k \in 1..Len(pat) : toLowerChar(s[i + k - 1]) = pat[k]

Contains(s, pat) == \E i \in 1..Len(s) : MatchAt(s, i, pat)

RECURSIVE SkipWs(_, _)
\* the first position j >= i that is past the end of s or holds no whitespace: \s*
SkipWs(s, i) == IF i > Len(s) \/ ~IsWs(s[i]) THEN i ELSE SkipWs(s, i + 1)

RECURSIVE BackWs(_, _)
\* the least position i <= j such that s[i..j-1] is all whitespace
BackWs(s, j) == IF j <= 1 \/ ~IsWs(s[j - 1]) THEN j ELSE BackWs(s, j - 1)

\* String.prototype.trim
trim(s) == SubSeq(s, SkipWs(s, 1), BackWs(s, Len(s) + 1) - 1)

RECURSIVE FlattenRange(_, _, _)
\* ss[lo] \o ... \o ss[hi], by halves
FlattenRange(ss, lo, hi) ==
  IF lo > hi THEN << >>
  ELSE IF lo = hi THEN ss[lo]
  ELSE LET mid == (lo + hi) \div 2
       IN  FlattenRange(ss, lo, mid) \o FlattenRange(ss, mid + 1, hi)

\* the concatenation of a sequence of strings; a global replace is the
\* concatenation of what each character becomes
Flatten(ss) == FlattenRange(ss, 1, Len(ss))

Fence == <<BQ,BQ,BQ>>

HtmlWord == <<"h","t","m","l">>

(***************************************************************************)
(* stripFences                                                             *)
(***************************************************************************)
\* src/server/server.js:19-24
\*   s.trim().replace(/^```(html)?\s*/i, "").replace(/```$/i, "").trim()
stripFencesServer(s) ==
  LET a == trim(s)
      b == IF MatchAt(a, 1, Fence)
           THEN LET j == IF MatchAtCI(a, 4, HtmlWord) THEN 8 ELSE 4
                IN  SubSeq(a, SkipWs(a, j), Len(a))
           ELSE a
      c == IF MatchAt(b, Len(b) - 2, Fence) THEN SubSeq(b, 1, Len(b) - 3) ELSE b
  IN  trim(c)

\* [a-zA-Z0-9_-]
IsTagChar(c) == IsUpper(c) \/ IsLowerAlpha(c) \/ IsDigit(c) \/ c = "_" \/ c = "-"

RECURSIVE SkipTag(_, _)
\* the first position j >= i that is past the end of s or holds no tag character
SkipTag(s, i) == IF i > Len(s) \/ ~IsTagChar(s[i]) THEN i ELSE SkipTag(s, i + 1)

\* position i of s lies in a run of three or more backticks: /`{3,}/g
InFenceRun(s, i) == \E a \in {i - 2, i - 1, i} : MatchAt(s, a, Fence)

\* src/unnamed/part_003:46-53
\*   s.replace(/^\s*```(?:[a-zA-Z0-9_-]+)?\s*/i, "").replace(/\s*```\s*$/i, "")
\*    .replace(/`{3,}/g, "").trim()
stripFencesPart003(s) ==
  LET p == SkipWs(s, 1)
      a == IF MatchAt(s, p, Fence)
           THEN SubSeq(s, SkipWs(s, SkipTag(s, p + 3)), Len(s))
           ELSE s
      \* the fence that only whitespace follows, if any
      ends == {j \in 1..Len(a) : MatchAt(a, j, Fence) /\ SkipWs(a, j + 3) = Len(a) + 1}
      b == IF ends = {} THEN a ELSE SubSeq(a, 1, BackWs(a, CHOOSE j \in ends : TRUE) - 1)
      c == Flatten([i \in 1..Len(b) |-> IF InFenceRun(b, i) THEN << >> ELSE <<b[i]>>])
  IN  trim(c)

\* stripFences without the replace of the trailing fence
stripFencesKeepsTrailing(v, s) ==
  LET a == trim(s)
  IN  IF MatchAt(a, 1, Fence) THEN trim(SubSeq(a, SkipWs(a, SkipTag(a, 4)), Len(a))) ELSE a

stripFences(v, s) == IF v = "server" THEN stripFencesServer(s) ELSE stripFencesPart003(s)

(***************************************************************************)
(* JSON values of the request body                                         *)
(***************************************************************************)
JV(t, s, n, a) == [t |-> t, s |-> s, n |-> n, a |-> a]

Undef == JV("undef", << >>, 0, << >>)

JNull == JV("null", << >>, 0, << >>)

JStr(s) == JV("str", s, 0, << >>)

JNum(n) == JV("num", << >>, n, << >>)

JBool(b) == JV("bool", << >>, IF b THEN 1 ELSE 0, << >>)

JObj == JV("obj", << >>, 0, << >>)

\* an array of strings
JArr(a) == JV("arr", << >>, 0, a)

\* JavaScript truthiness: !v is false
Truthy(v) ==
  CASE v.t = "undef" -> FALSE
    [] v.t = "null"  -> FALSE
    [] v.t = "str"   -> v.s # << >>
    [] v.t = "num"   -> v.n # 0
    [] v.t = "bool"  -> v.n = 1
    [] OTHER         -> TRUE

\* a || b
OrElse(a, b) == IF Truthy(a) THEN a ELSE b

RECURSIVE NatToStr(_)
NatToStr(n) ==
  IF n < 10 THEN <<DigitChars[n + 1]>>
  ELSE NatToStr(n \div 10) \o <<DigitChars[(n % 10) + 1]>>

RECURSIVE Join(_, _)
\* Array.prototype.join of strings
Join(ss, sep) ==
  IF ss = << >> THEN << >>
  ELSE IF Len(ss) = 1 THEN ss[1]
  ELSE ss[1] \o sep \o Join(Tail(ss), sep)

\* String(v) and v.toString() on the values of the model
ToStr(v) ==
  CASE v.t = "str"   -> v.s
    [] v.t = "num"   -> NatToStr(v.n)
    [] v.t = "bool"  -> IF v.n = 1 THEN <<"t","r","u","e">> ELSE <<"f","a","l","s","e">>
    [] v.t = "obj"   -> <<"[","o","b","j","e","c","t"," ","O","b","j","e","c","t","]">>
    [] v.t = "arr"   -> Join(v.a, <<",">>)
    [] v.t = "null"  -> <<"n","u","l","l">>
    [] OTHER         -> <<"u","n","d","e","f","i","n","e","d">>

\* the \u00xx escapes JSON.stringify writes for the control characters that have
\* no short escape
ControlEscapes ==
  "U+0000" :> <<"\\", "u", "0", "0", "0", "0">> @@ "U+0001" :> <<"\\", "u", "0", "0", "0", "1">> @@
  "U+0002" :> <<"\\", "u", "0", "0", "0", "2">> @@ "U+0003" :> <<"\\", "u", "0", "0", "0", "3">> @@
  "U+0004" :> <<"\\", "u", "0", "0", "0", "4">> @@ "U+0005" :> <<"\\", "u", "0", "0", "0", "5">> @@
  "U+0006" :> <<"\\", "u", "0", "0", "0", "6">> @@ "U+0007" :> <<"\\", "u", "0", "0", "0", "7">> @@
  "U+000B" :> <<"\\", "u", "0", "0", "0", "b">> @@ "U+000E" :> <<"\\", "u", "0", "0", "0", "e">> @@
  "U+000F" :> <<"\\", "u", "0", "0", "0", "f">> @@ "U+0010" :> <<"\\", "u", "0", "0", "1", "0">> @@
  "U+0011" :> <<"\\", "u", "0", "0", "1", "1">> @@ "U+0012" :> <<"\\", "u", "0", "0", "1", "2">> @@
  "U+0013" :> <<"\\", "u", "0", "0", "1", "3">> @@ "U+0014" :> <<"\\", "u", "0", "0", "1", "4">> @@
  "U+0015" :> <<"\\", "u", "0", "0", "1", "5">> @@ "U+0016" :> <<"\\", "u", "0", "0", "1", "6">> @@
  "U+0017" :> <<"\\", "u", "0", "0", "1", "7">> @@ "U+0018" :> <<"\\", "u", "0", "0", "1", "8">> @@
  "U+0019" :> <<"\\", "u", "0", "0", "1", "9">> @@ "U+001A" :> <<"\\", "u", "0", "0", "1", "a">> @@
  "U+001B" :> <<"\\", "u", "0", "0", "1", "b">> @@ "U+001C" :> <<"\\", "u", "0", "0", "1", "c">> @@
  "U+001D" :> <<"\\", "u", "0", "0", "1", "d">> @@ "U+001E" :> <<"\\", "u", "0", "0", "1", "e">> @@
  "U+001F" :> <<"\\", "u", "0", "0", "1", "f">>

\* the 2048 surrogate code units in their order: U+D800 to U+DBFF are the high
\* ones, U+DC00 to U+DFFF the low ones
SurrogateUnits ==
  << "U+D800", "U+D801", "U+D802", "U+D803", "U+D804", "U+D805", "U+D806", "U+D807", "U+D808", "U+D809",
     "U+D80A", "U+D80B", "U+D80C", "U+D80D", "U+D80E", "U+D80F", "U+D810", "U+D811", "U+D812", "U+D813",
     "U+D814", "U+D815", "U+D816", "U+D817", "U+D818", "U+D819", "U+D81A", "U+D81B", "U+D81C", "U+D81D",
     "U+D81E", "U+D81F", "U+D820", "U+D821", "U+D822", "U+D823", "U+D824", "U+D825", "U+D826", "U+D827",
     "U+D828", "U+D829", "U+D82A", "U+D82B", "U+D82C", "U+D82D", "U+D82E", "U+D82F", "U+D830", "U+D831",
     "U+D832", "U+D833", "U+D834", "U+D835", "U+D836", "U+D837", "U+D838", "U+D839", "U+D83A", "U+D83B",
     "U+D83C", "U+D83D", "U+D83E", "U+D83F", "U+D840", "U+D841", "U+D842", "U+D843", "U+D844", "U+D845",
     "U+D846", "U+D847", "U+D848", "U+D849", "U+D84A", "U+D84B", "U+D84C", "U+D84D", "U+D84E", "U+D84F",
     "U+D850", "U+D851", "U+D852", "U+D853", "U+D854", "U+D855", "U+D856", "U+D857", "U+D858", "U+D859",
     "U+D85A", "U+D85B", "U+D85C", "U+D85D", "U+D85E", "U+D85F", "U+D860", "U+D861", "U+D862", "U+D863",
     "U+D864", "U+D865", "U+D866", "U+D867", "U+D868", "U+D869", "U+D86A", "U+D86B", "U+D86C", "U+D86D",
     "U+D86E", "U+D86F", "U+D870", "U+D871", "U+D872", "U+D873", "U+D874", "U+D875", "U+D876", "U+D877",
     "U+D878", "U+D879", "U+D87A", "U+D87B", "U+D87C", "U+D87D", "U+D87E", "U+D87F", "U+D880", "U+D881",
     "U+D882", "U+D883", "U+D884", "U+D885", "U+D886", "U+D887", "U+D888", "U+D889", "U+D88A", "U+D88B",
     "U+D88C", "U+D88D", "U+D88E", "U+D88F", "U+D890", "U+D891", "U+D892", "U+D893", "U+D894", "U+D895",
     "U+D896", "U+D897", "U+D898", "U+D899", "U+D89A", "U+D89B", "U+D89C", "U+D89D", "U+D89E", "U+D89F",
     "U+D8A0", "U+D8A1", "U+D8A2", "U+D8A3", "U+D8A4", "U+D8A5", "U+D8A6", "U+D8A7", "U+D8A8", "U+D8A9",
     "U+D8AA", "U+D8AB", "U+D8AC", "U+D8AD", "U+D8AE", "U+D8AF", "U+D8B0", "U+D8B1", "U+D8B2", "U+D8B3",
     "U+D8B4", "U+D8B5", "U+D8B6", "U+D8B7", "U+D8B8", "U+D8B9", "U+D8BA", "U+D8BB", "U+D8BC", "U+D8BD",
     "U+D8BE", "U+D8BF", "U+D8C0", "U+D8C1", "U+D8C2", "U+D8C3", "U+D8C4", "U+D8C5", "U+D8C6", "U+D8C7",
     "U+D8C8", "U+D8C9", "U+D8CA", "U+D8CB", "U+D8CC", "U+D8CD", "U+D8CE", "U+D8CF", "U+D8D0", "U+D8D1",
     "U+D8D2", "U+D8D3", "U+D8D4", "U+D8D5", "U+D8D6", "U+D8D7", "U+D8D8", "U+D8D9", "U+D8DA", "U+D8DB",
     "U+D8DC", "U+D8DD", "U+D8DE", "U+D8DF", "U+D8E0", "U+D8E1", "U+D8E2", "U+D8E3", "U+D8E4", "U+D8E5",
     "U+D8E6", "U+D8E7", "U+D8E8", "U+D8E9", "U+D8EA", "U+D8EB", "U+D8EC", "U+D8ED", "U+D8EE", "U+D8EF",
     "U+D8F0", "U+D8F1", "U+D8F2", "U+D8F3", "U+D8F4", "U+D8F5", "U+D8F6", "U+D8F7", "U+D8F8", "U+D8F9",
     "U+D8FA", "U+D8FB", "U+D8FC", "U+D8FD", "U+D8FE", "U+D8FF", "U+D900", "U+D901", "U+D902", "U+D903",
     "U+D904", "U+D905", "U+D906", "U+D907", "U+D908", "U+D909", "U+D90A", "U+D90B", "U+D90C", "U+D90D",
     "U+D90E", "U+D90F", "U+D910", "U+D911", "U+D912", "U+D913", "U+D914", "U+D915", "U+D916", "U+D917",
     "U+D918", "U+D919", "U+D91A", "U+D91B", "U+D91C", "U+D91D", "U+D91E", "U+D91F", "U+D920", "U+D921",
     "U+D922", "U+D923", "U+D924", "U+D925", "U+D926", "U+D927", "U+D928", "U+D929", "U+D92A", "U+D92B",
     "U+D92C", "U+D92D", "U+D92E", "U+D92F", "U+D930", "U+D931", "U+D932", "U+D933", "U+D934", "U+D935",
     "U+D936", "U+D937", "U+D938", "U+D939", "U+D93A", "U+D93B", "U+D93C", "U+D93D", "U+D93E", "U+D93F",
     "U+D940", "U+D941", "U+D942", "U+D943", "U+D944", "U+D945", "U+D946", "U+D947", "U+D948", "U+D949",
     "U+D94A", "U+D94B", "U+D94C", "U+D94D", "U+D94E", "U+D94F", "U+D950", "U+D951", "U+D952", "U+D953",
     "U+D954", "U+D955", "U+D956", "U+D957", "U+D958", "U+D959", "U+D95A", "U+D95B", "U+D95C", "U+D95D",
     "U+D95E", "U+D95F", "U+D960", "U+D961", "U+D962", "U+D963", "U+D964", "U+D965", "U+D966", "U+D967",
     "U+D968", "U+D969", "U+D96A", "U+D96B", "U+D96C", "U+D96D", "U+D96E", "U+D96F", "U+D970", "U+D971",
     "U+D972", "U+D973", "U+D974", "U+D975", "U+D976", "U+D977", "U+D978", "U+D979", "U+D97A", "U+D97B",
     "U+D97C", "U+D97D", "U+D97E", "U+D97F", "U+D980", "U+D981", "U+D982", "U+D983", "U+D984", "U+D985",
     "U+D986", "U+D987", "U+D988", "U+D989", "U+D98A", "U+D98B", "U+D98C", "U+D98D", "U+D98E", "U+D98F",
     "U+D990", "U+D991", "U+D992", "U+D993", "U+D994", "U+D995", "U+D996", "U+D997", "U+D998", "U+D999",
     "U+D99A", "U+D99B", "U+D99C", "U+D99D", "U+D99E", "U+D99F", "U+D9A0", "U+D9A1", "U+D9A2", "U+D9A3",
     "U+D9A4", "U+D9A5", "U+D9A6", "U+D9A7", "U+D9A8", "U+D9A9", "U+D9AA", "U+D9AB", "U+D9AC", "U+D9AD",
     "U+D9AE", "U+D9AF", "U+D9B0", "U+D9B1", "U+D9B2", "U+D9B3", "U+D9B4", "U+D9B5", "U+D9B6", "U+D9B7",
     "U+D9B8", "U+D9B9", "U+D9BA", "U+D9BB", "U+D9BC", "U+D9BD", "U+D9BE", "U+D9BF", "U+D9C0", "U+D9C1",
     "U+D9C2", "U+D9C3", "U+D9C4", "U+D9C5", "U+D9C6", "U+D9C7", "U+D9C8", "U+D9C9", "U+D9CA", "U+D9CB",
     "U+D9CC", "U+D9CD", "U+D9CE", "U+D9CF", "U+D9D0", "U+D9D1", "U+D9D2", "U+D9D3", "U+D9D4", "U+D9D5",
     "U+D9D6", "U+D9D7", "U+D9D8", "U+D9D9", "U+D9DA", "U+D9DB", "U+D9DC", "U+D9DD", "U+D9DE", "U+D9DF",
     "U+D9E0", "U+D9E1", "U+D9E2", "U+D9E3", "U+D9E4", "U+D9E5", "U+D9E6", "U+D9E7", "U+D9E8", "U+D9E9",
     "U+D9EA", "U+D9EB", "U+D9EC", "U+D9ED", "U+D9EE", "U+D9EF", "U+D9F0", "U+D9F1", "U+D9F2", "U+D9F3",
     "U+D9F4", "U+D9F5", "U+D9F6", "U+D9F7", "U+D9F8", "U+D9F9", "U+D9FA", "U+D9FB", "U+D9FC", "U+D9FD",
     "U+D9FE", "U+D9FF", "U+DA00", "U+DA01", "U+DA02", "U+DA03", "U+DA04", "U+DA05", "U+DA06", "U+DA07",
     "U+DA08", "U+DA09", "U+DA0A", "U+DA0B", "U+DA0C", "U+DA0D", "U+DA0E", "U+DA0F", "U+DA10", "U+DA11",
     "U+DA12", "U+DA13", "U+DA14", "U+DA15", "U+DA16", "U+DA17", "U+DA18", "U+DA19", "U+DA1A", "U+DA1B",
     "U+DA1C", "U+DA1D", "U+DA1E", "U+DA1F", "U+DA20", "U+DA21", "U+DA22", "U+DA23", "U+DA24", "U+DA25",
     "U+DA26", "U+DA27", "U+DA28", "U+DA29", "U+DA2A", "U+DA2B", "U+DA2C", "U+DA2D", "U+DA2E", "U+DA2F",
     "U+DA30", "U+DA31", "U+DA32", "U+DA33", "U+DA34", "U+DA35", "U+DA36", "U+DA37", "U+DA38", "U+DA39",
     "U+DA3A", "U+DA3B", "U+DA3C", "U+DA3D", "U+DA3E", "U+DA3F", "U+DA40", "U+DA41", "U+DA42", "U+DA43",
     "U+DA44", "U+DA45", "U+DA46", "U+DA47", "U+DA48", "U+DA49", "U+DA4A", "U+DA4B", "U+DA4C", "U+DA4D",
     "U+DA4E", "U+DA4F", "U+DA50", "U+DA51", "U+DA52", "U+DA53", "U+DA54", "U+DA55", "U+DA56", "U+DA57",
     "U+DA58", "U+DA59", "U+DA5A", "U+DA5B", "U+DA5C", "U+DA5D", "U+DA5E", "U+DA5F", "U+DA60", "U+DA61",
     "U+DA62", "U+DA63", "U+DA64", "U+DA65", "U+DA66", "U+DA67", "U+DA68", "U+DA69", "U+DA6A", "U+DA6B",
     "U+DA6C", "U+DA6D", "U+DA6E", "U+DA6F", "U+DA70", "U+DA71", "U+DA72", "U+DA73", "U+DA74", "U+DA75",
     "U+DA76", "U+DA77", "U+DA78", "U+DA79", "U+DA7A", "U+DA7B", "U+DA7C", "U+DA7D", "U+DA7E", "U+DA7F",
     "U+DA80", "U+DA81", "U+DA82", "U+DA83", "U+DA84", "U+DA85", "U+DA86", "U+DA87", "U+DA88", "U+DA89",
     "U+DA8A", "U+DA8B", "U+DA8C", "U+DA8D", "U+DA8E", "U+DA8F", "U+DA90", "U+DA91", "U+DA92", "U+DA93",
     "U+DA94", "U+DA95", "U+DA96", "U+DA97", "U+DA98", "U+DA99", "U+DA9A", "U+DA9B", "U+DA9C", "U+DA9D",
     "U+DA9E", "U+DA9F", "U+DAA0", "U+DAA1", "U+DAA2", "U+DAA3", "U+DAA4", "U+DAA5", "U+DAA6", "U+DAA7",
     "U+DAA8", "U+DAA9", "U+DAAA", "U+DAAB", "U+DAAC", "U+DAAD", "U+DAAE", "U+DAAF", "U+DAB0", "U+DAB1",
     "U+DAB2", "U+DAB3", "U+DAB4", "U+DAB5", "U+DAB6", "U+DAB7", "U+DAB8", "U+DAB9", "U+DABA", "U+DABB",
     "U+DABC", "U+DABD", "U+DABE", "U+DABF", "U+DAC0", "U+DAC1", "U+DAC2", "U+DAC3", "U+DAC4", "U+DAC5",
     "U+DAC6", "U+DAC7", "U+DAC8", "U+DAC9", "U+DACA", "U+DACB", "U+DACC", "U+DACD", "U+DACE", "U+DACF",
     "U+DAD0", "U+DAD1", "U+DAD2", "U+DAD3", "U+DAD4", "U+DAD5", "U+DAD6", "U+DAD7", "U+DAD8", "U+DAD9",
     "U+DADA", "U+DADB", "U+DADC", "U+DADD", "U+DADE", "U+DADF", "U+DAE0", "U+DAE1", "U+DAE2", "U+DAE3",
     "U+DAE4", "U+DAE5", "U+DAE6", "U+DAE7", "U+DAE8", "U+DAE9", "U+DAEA", "U+DAEB", "U+DAEC", "U+DAED",
     "U+DAEE", "U+DAEF", "U+DAF0", "U+DAF1", "U+DAF2", "U+DAF3", "U+DAF4", "U+DAF5", "U+DAF6", "U+DAF7",
     "U+DAF8", "U+DAF9", "U+DAFA", "U+DAFB", "U+DAFC", "U+DAFD", "U+DAFE", "U+DAFF", "U+DB00", "U+DB01",
     "U+DB02", "U+DB03", "U+DB04", "U+DB05", "U+DB06", "U+DB07", "U+DB08", "U+DB09", "U+DB0A", "U+DB0B",
     "U+DB0C", "U+DB0D", "U+DB0E", "U+DB0F", "U+DB10", "U+DB11", "U+DB12", "U+DB13", "U+DB14", "U+DB15",
     "U+DB16", "U+DB17", "U+DB18", "U+DB19", "U+DB1A", "U+DB1B", "U+DB1C", "U+DB1D", "U+DB1E", "U+DB1F",
     "U+DB20", "U+DB21", "U+DB22", "U+DB23", "U+DB24", "U+DB25", "U+DB26", "U+DB27", "U+DB28", "U+DB29",
     "U+DB2A", "U+DB2B", "U+DB2C", "U+DB2D", "U+DB2E", "U+DB2F", "U+DB30", "U+DB31", "U+DB32", "U+DB33",
     "U+DB34", "U+DB35", "U+DB36", "U+DB37", "U+DB38", "U+DB39", "U+DB3A", "U+DB3B", "U+DB3C", "U+DB3D",
     "U+DB3E", "U+DB3F", "U+DB40", "U+DB41", "U+DB42", "U+DB43", "U+DB44", "U+DB45", "U+DB46", "U+DB47",
     "U+DB48", "U+DB49", "U+DB4A", "U+DB4B", "U+DB4C", "U+DB4D", "U+DB4E", "U+DB4F", "U+DB50", "U+DB51",
     "U+DB52", "U+DB53", "U+DB54", "U+DB55", "U+DB56", "U+DB57", "U+DB58", "U+DB59", "U+DB5A", "U+DB5B",
     "U+DB5C", "U+DB5D", "U+DB5E", "U+DB5F", "U+DB60", "U+DB61", "U+DB62", "U+DB63", "U+DB64", "U+DB65",
     "U+DB66", "U+DB67", "U+DB68", "U+DB69", "U+DB6A", "U+DB6B", "U+DB6C", "U+DB6D", "U+DB6E", "U+DB6F",
     "U+DB70", "U+DB71", "U+DB72", "U+DB73", "U+DB74", "U+DB75", "U+DB76", "U+DB77", "U+DB78", "U+DB79",
     "U+DB7A", "U+DB7B", "U+DB7C", "U+DB7D", "U+DB7E", "U+DB7F", "U+DB80", "U+DB81", "U+DB82", "U+DB83",
     "U+DB84", "U+DB85", "U+DB86", "U+DB87", "U+DB88", "U+DB89", "U+DB8A", "U+DB8B", "U+DB8C", "U+DB8D",
     "U+DB8E", "U+DB8F", "U+DB90", "U+DB91", "U+DB92", "U+DB93", "U+DB94", "U+DB95", "U+DB96", "U+DB97",
     "U+DB98", "U+DB99", "U+DB9A", "U+DB9B", "U+DB9C", "U+DB9D", "U+DB9E", "U+DB9F", "U+DBA0", "U+DBA1",
     "U+DBA2", "U+DBA3", "U+DBA4", "U+DBA5", "U+DBA6", "U+DBA7", "U+DBA8", "U+DBA9", "U+DBAA", "U+DBAB",
     "U+DBAC", "U+DBAD", "U+DBAE", "U+DBAF", "U+DBB0", "U+DBB1", "U+DBB2", "U+DBB3", "U+DBB4", "U+DBB5",
     "U+DBB6", "U+DBB7", "U+DBB8", "U+DBB9", "U+DBBA", "U+DBBB", "U+DBBC", "U+DBBD", "U+DBBE", "U+DBBF",
     "U+DBC0", "U+DBC1", "U+DBC2", "U+DBC3", "U+DBC4", "U+DBC5", "U+DBC6", "U+DBC7", "U+DBC8", "U+DBC9",
     "U+DBCA", "U+DBCB", "U+DBCC", "U+DBCD", "U+DBCE", "U+DBCF", "U+DBD0", "U+DBD1", "U+DBD2", "U+DBD3",
     "U+DBD4", "U+DBD5", "U+DBD6", "U+DBD7", "U+DBD8", "U+DBD9", "U+DBDA", "U+DBDB", "U+DBDC", "U+DBDD",
     "U+DBDE", "U+DBDF", "U+DBE0", "U+DBE1", "U+DBE2", "U+DBE3", "U+DBE4", "U+DBE5", "U+DBE6", "U+DBE7",
     "U+DBE8", "U+DBE9", "U+DBEA", "U+DBEB", "U+DBEC", "U+DBED", "U+DBEE", "U+DBEF", "U+DBF0", "U+DBF1",
     "U+DBF2", "U+DBF3", "U+DBF4", "U+DBF5", "U+DBF6", "U+DBF7", "U+DBF8", "U+DBF9", "U+DBFA", "U+DBFB",
     "U+DBFC", "U+DBFD", "U+DBFE", "U+DBFF", "U+DC00", "U+DC01", "U+DC02", "U+DC03", "U+DC04", "U+DC05",
     "U+DC06", "U+DC07", "U+DC08", "U+DC09", "U+DC0A", "U+DC0B", "U+DC0C", "U+DC0D", "U+DC0E", "U+DC0F",
     "U+DC10", "U+DC11", "U+DC12", "U+DC13", "U+DC14", "U+DC15", "U+DC16", "U+DC17", "U+DC18", "U+DC19",
     "U+DC1A", "U+DC1B", "U+DC1C", "U+DC1D", "U+DC1E", "U+DC1F", "U+DC20", "U+DC21", "U+DC22", "U+DC23",
     "U+DC24", "U+DC25", "U+DC26", "U+DC27", "U+DC28", "U+DC29", "U+DC2A", "U+DC2B", "U+DC2C", "U+DC2D",
     "U+DC2E", "U+DC2F", "U+DC30", "U+DC31", "U+DC32", "U+DC33", "U+DC34", "U+DC35", "U+DC36", "U+DC37",
     "U+DC38", "U+DC39", "U+DC3A", "U+DC3B", "U+DC3C", "U+DC3D", "U+DC3E", "U+DC3F", "U+DC40", "U+DC41",
     "U+DC42", "U+DC43", "U+DC44", "U+DC45", "U+DC46", "U+DC47", "U+DC48", "U+DC49", "U+DC4A", "U+DC4B",
     "U+DC4C", "U+DC4D", "U+DC4E", "U+DC4F", "U+DC50", "U+DC51", "U+DC52", "U+DC53", "U+DC54", "U+DC55",
     "U+DC56", "U+DC57", "U+DC58", "U+DC59", "U+DC5A", "U+DC5B", "U+DC5C", "U+DC5D", "U+DC5E", "U+DC5F",
     "U+DC60", "U+DC61", "U+DC62", "U+DC63", "U+DC64", "U+DC65", "U+DC66", "U+DC67", "U+DC68", "U+DC69",
     "U+DC6A", "U+DC6B", "U+DC6C", "U+DC6D", "U+DC6E", "U+DC6F", "U+DC70", "U+DC71", "U+DC72", "U+DC73",
     "U+DC74", "U+DC75", "U+DC76", "U+DC77", "U+DC78", "U+DC79", "U+DC7A", "U+DC7B", "U+DC7C", "U+DC7D",
     "U+DC7E", "U+DC7F", "U+DC80", "U+DC81", "U+DC82", "U+DC83", "U+DC84", "U+DC85", "U+DC86", "U+DC87",
     "U+DC88", "U+DC89", "U+DC8A", "U+DC8B", "U+DC8C", "U+DC8D", "U+DC8E", "U+DC8F", "U+DC90", "U+DC91",
     "U+DC92", "U+DC93", "U+DC94", "U+DC95", "U+DC96", "U+DC97", "U+DC98", "U+DC99", "U+DC9A", "U+DC9B",
     "U+DC9C", "U+DC9D", "U+DC9E", "U+DC9F", "U+DCA0", "U+DCA1", "U+DCA2", "U+DCA3", "U+DCA4", "U+DCA5",
     "U+DCA6", "U+DCA7", "U+DCA8", "U+DCA9", "U+DCAA", "U+DCAB", "U+DCAC", "U+DCAD", "U+DCAE", "U+DCAF",
     "U+DCB0", "U+DCB1", "U+DCB2", "U+DCB3", "U+DCB4", "U+DCB5", "U+DCB6", "U+DCB7", "U+DCB8", "U+DCB9",
     "U+DCBA", "U+DCBB", "U+DCBC", "U+DCBD", "U+DCBE", "U+DCBF", "U+DCC0", "U+DCC1", "U+DCC2", "U+DCC3",
     "U+DCC4", "U+DCC5", "U+DCC6", "U+DCC7", "U+DCC8", "U+DCC9", "U+DCCA", "U+DCCB", "U+DCCC", "U+DCCD",
     "U+DCCE", "U+DCCF", "U+DCD0", "U+DCD1", "U+DCD2", "U+DCD3", "U+DCD4", "U+DCD5", "U+DCD6", "U+DCD7",
     "U+DCD8", "U+DCD9", "U+DCDA", "U+DCDB", "U+DCDC", "U+DCDD", "U+DCDE", "U+DCDF", "U+DCE0", "U+DCE1",
     "U+DCE2", "U+DCE3", "U+DCE4", "U+DCE5", "U+DCE6", "U+DCE7", "U+DCE8", "U+DCE9", "U+DCEA", "U+DCEB",
     "U+DCEC", "U+DCED", "U+DCEE", "U+DCEF", "U+DCF0", "U+DCF1", "U+DCF2", "U+DCF3", "U+DCF4", "U+DCF5",
     "U+DCF6", "U+DCF7", "U+DCF8", "U+DCF9", "U+DCFA", "U+DCFB", "U+DCFC", "U+DCFD", "U+DCFE", "U+DCFF",
     "U+DD00", "U+DD01", "U+DD02", "U+DD03", "U+DD04", "U+DD05", "U+DD06", "U+DD07", "U+DD08", "U+DD09",
     "U+DD0A", "U+DD0B", "U+DD0C", "U+DD0D", "U+DD0E", "U+DD0F", "U+DD10", "U+DD11", "U+DD12", "U+DD13",
     "U+DD14", "U+DD15", "U+DD16", "U+DD17", "U+DD18", "U+DD19", "U+DD1A", "U+DD1B", "U+DD1C", "U+DD1D",
     "U+DD1E", "U+DD1F", "U+DD20", "U+DD21", "U+DD22", "U+DD23", "U+DD24", "U+DD25", "U+DD26", "U+DD27",
     "U+DD28", "U+DD29", "U+DD2A", "U+DD2B", "U+DD2C", "U+DD2D", "U+DD2E", "U+DD2F", "U+DD30", "U+DD31",
     "U+DD32", "U+DD33", "U+DD34", "U+DD35", "U+DD36", "U+DD37", "U+DD38", "U+DD39", "U+DD3A", "U+DD3B",
     "U+DD3C", "U+DD3D", "U+DD3E", "U+DD3F", "U+DD40", "U+DD41", "U+DD42", "U+DD43", "U+DD44", "U+DD45",
     "U+DD46", "U+DD47", "U+DD48", "U+DD49", "U+DD4A", "U+DD4B", "U+DD4C", "U+DD4D", "U+DD4E", "U+DD4F",
     "U+DD50", "U+DD51", "U+DD52", "U+DD53", "U+DD54", "U+DD55", "U+DD56", "U+DD57", "U+DD58", "U+DD59",
     "U+DD5A", "U+DD5B", "U+DD5C", "U+DD5D", "U+DD5E", "U+DD5F", "U+DD60", "U+DD61", "U+DD62", "U+DD63",
     "U+DD64", "U+DD65", "U+DD66", "U+DD67", "U+DD68", "U+DD69", "U+DD6A", "U+DD6B", "U+DD6C", "U+DD6D",
     "U+DD6E", "U+DD6F", "U+DD70", "U+DD71", "U+DD72", "U+DD73", "U+DD74", "U+DD75", "U+DD76", "U+DD77",
     "U+DD78", "U+DD79", "U+DD7A", "U+DD7B", "U+DD7C", "U+DD7D", "U+DD7E", "U+DD7F", "U+DD80", "U+DD81",
     "U+DD82", "U+DD83", "U+DD84", "U+DD85", "U+DD86", "U+DD87", "U+DD88", "U+DD89", "U+DD8A", "U+DD8B",
     "U+DD8C", "U+DD8D", "U+DD8E", "U+DD8F", "U+DD90", "U+DD91", "U+DD92", "U+DD93", "U+DD94", "U+DD95",
     "U+DD96", "U+DD97", "U+DD98", "U+DD99", "U+DD9A", "U+DD9B", "U+DD9C", "U+DD9D", "U+DD9E", "U+DD9F",
     "U+DDA0", "U+DDA1", "U+DDA2", "U+DDA3", "U+DDA4", "U+DDA5", "U+DDA6", "U+DDA7", "U+DDA8", "U+DDA9",
     "U+DDAA", "U+DDAB", "U+DDAC", "U+DDAD", "U+DDAE", "U+DDAF", "U+DDB0", "U+DDB1", "U+DDB2", "U+DDB3",
     "U+DDB4", "U+DDB5", "U+DDB6", "U+DDB7", "U+DDB8", "U+DDB9", "U+DDBA", "U+DDBB", "U+DDBC", "U+DDBD",
     "U+DDBE", "U+DDBF", "U+DDC0", "U+DDC1", "U+DDC2", "U+DDC3", "U+DDC4", "U+DDC5", "U+DDC6", "U+DDC7",
     "U+DDC8", "U+DDC9", "U+DDCA", "U+DDCB", "U+DDCC", "U+DDCD", "U+DDCE", "U+DDCF", "U+DDD0", "U+DDD1",
     "U+DDD2", "U+DDD3", "U+DDD4", "U+DDD5", "U+DDD6", "U+DDD7", "U+DDD8", "U+DDD9", "U+DDDA", "U+DDDB",
     "U+DDDC", "U+DDDD", "U+DDDE", "U+DDDF", "U+DDE0", "U+DDE1", "U+DDE2", "U+DDE3", "U+DDE4", "U+DDE5",
     "U+DDE6", "U+DDE7", "U+DDE8", "U+DDE9", "U+DDEA", "U+DDEB", "U+DDEC", "U+DDED", "U+DDEE", "U+DDEF",
     "U+DDF0", "U+DDF1", "U+DDF2", "U+DDF3", "U+DDF4", "U+DDF5", "U+DDF6", "U+DDF7", "U+DDF8", "U+DDF9",
     "U+DDFA", "U+DDFB", "U+DDFC", "U+DDFD", "U+DDFE", "U+DDFF", "U+DE00", "U+DE01", "U+DE02", "U+DE03",
     "U+DE04", "U+DE05", "U+DE06", "U+DE07", "U+DE08", "U+DE09", "U+DE0A", "U+DE0B", "U+DE0C", "U+DE0D",
     "U+DE0E", "U+DE0F", "U+DE10", "U+DE11", "U+DE12", "U+DE13", "U+DE14", "U+DE15", "U+DE16", "U+DE17",
     "U+DE18", "U+DE19", "U+DE1A", "U+DE1B", "U+DE1C", "U+DE1D", "U+DE1E", "U+DE1F", "U+DE20", "U+DE21",
     "U+DE22", "U+DE23", "U+DE24", "U+DE25", "U+DE26", "U+DE27", "U+DE28", "U+DE29", "U+DE2A", "U+DE2B",
     "U+DE2C", "U+DE2D", "U+DE2E", "U+DE2F", "U+DE30", "U+DE31", "U+DE32", "U+DE33", "U+DE34", "U+DE35",
     "U+DE36", "U+DE37", "U+DE38", "U+DE39", "U+DE3A", "U+DE3B", "U+DE3C", "U+DE3D", "U+DE3E", "U+DE3F",
     "U+DE40", "U+DE41", "U+DE42", "U+DE43", "U+DE44", "U+DE45", "U+DE46", "U+DE47", "U+DE48", "U+DE49",
     "U+DE4A", "U+DE4B", "U+DE4C", "U+DE4D", "U+DE4E", "U+DE4F", "U+DE50", "U+DE51", "U+DE52", "U+DE53",
     "U+DE54", "U+DE55", "U+DE56", "U+DE57", "U+DE58", "U+DE59", "U+DE5A", "U+DE5B", "U+DE5C", "U+DE5D",
     "U+DE5E", "U+DE5F", "U+DE60", "U+DE61", "U+DE62", "U+DE63", "U+DE64", "U+DE65", "U+DE66", "U+DE67",
     "U+DE68", "U+DE69", "U+DE6A", "U+DE6B", "U+DE6C", "U+DE6D", "U+DE6E", "U+DE6F", "U+DE70", "U+DE71",
     "U+DE72", "U+DE73", "U+DE74", "U+DE75", "U+DE76", "U+DE77", "U+DE78", "U+DE79", "U+DE7A", "U+DE7B",
     "U+DE7C", "U+DE7D", "U+DE7E", "U+DE7F", "U+DE80", "U+DE81", "U+DE82", "U+DE83", "U+DE84", "U+DE85",
     "U+DE86", "U+DE87", "U+DE88", "U+DE89", "U+DE8A", "U+DE8B", "U+DE8C", "U+DE8D", "U+DE8E", "U+DE8F",
     "U+DE90", "U+DE91", "U+DE92", "U+DE93", "U+DE94", "U+DE95", "U+DE96", "U+DE97", "U+DE98", "U+DE99",
     "U+DE9A", "U+DE9B", "U+DE9C", "U+DE9D", "U+DE9E", "U+DE9F", "U+DEA0", "U+DEA1", "U+DEA2", "U+DEA3",
     "U+DEA4", "U+DEA5", "U+DEA6", "U+DEA7", "U+DEA8", "U+DEA9", "U+DEAA", "U+DEAB", "U+DEAC", "U+DEAD",
     "U+DEAE", "U+DEAF", "U+DEB0", "U+DEB1", "U+DEB2", "U+DEB3", "U+DEB4", "U+DEB5", "U+DEB6", "U+DEB7",
     "U+DEB8", "U+DEB9", "U+DEBA", "U+DEBB", "U+DEBC", "U+DEBD", "U+DEBE", "U+DEBF", "U+DEC0", "U+DEC1",
     "U+DEC2", "U+DEC3", "U+DEC4", "U+DEC5", "U+DEC6", "U+DEC7", "U+DEC8", "U+DEC9", "U+DECA", "U+DECB",
     "U+DECC", "U+DECD", "U+DECE", "U+DECF", "U+DED0", "U+DED1", "U+DED2", "U+DED3", "U+DED4", "U+DED5",
     "U+DED6", "U+DED7", "U+DED8", "U+DED9", "U+DEDA", "U+DEDB", "U+DEDC", "U+DEDD", "U+DEDE", "U+DEDF",
     "U+DEE0", "U+DEE1", "U+DEE2", "U+DEE3", "U+DEE4", "U+DEE5", "U+DEE6", "U+DEE7", "U+DEE8", "U+DEE9",
     "U+DEEA", "U+DEEB", "U+DEEC", "U+DEED", "U+DEEE", "U+DEEF", "U+DEF0", "U+DEF1", "U+DEF2", "U+DEF3",
     "U+DEF4", "U+DEF5", "U+DEF6", "U+DEF7", "U+DEF8", "U+DEF9", "U+DEFA", "U+DEFB", "U+DEFC", "U+DEFD",
     "U+DEFE", "U+DEFF", "U+DF00", "U+DF01", "U+DF02", "U+DF03", "U+DF04", "U+DF05", "U+DF06", "U+DF07",
     "U+DF08", "U+DF09", "U+DF0A", "U+DF0B", "U+DF0C", "U+DF0D", "U+DF0E", "U+DF0F", "U+DF10", "U+DF11",
     "U+DF12", "U+DF13", "U+DF14", "U+DF15", "U+DF16", "U+DF17", "U+DF18", "U+DF19", "U+DF1A", "U+DF1B",
     "U+DF1C", "U+DF1D", "U+DF1E", "U+DF1F", "U+DF20", "U+DF21", "U+DF22", "U+DF23", "U+DF24", "U+DF25",
     "U+DF26", "U+DF27", "U+DF28", "U+DF29", "U+DF2A", "U+DF2B", "U+DF2C", "U+DF2D", "U+DF2E", "U+DF2F",
     "U+DF30", "U+DF31", "U+DF32", "U+DF33", "U+DF34", "U+DF35", "U+DF36", "U+DF37", "U+DF38", "U+DF39",
     "U+DF3A", "U+DF3B", "U+DF3C", "U+DF3D", "U+DF3E", "U+DF3F", "U+DF40", "U+DF41", "U+DF42", "U+DF43",
     "U+DF44", "U+DF45", "U+DF46", "U+DF47", "U+DF48", "U+DF49", "U+DF4A", "U+DF4B", "U+DF4C", "U+DF4D",
     "U+DF4E", "U+DF4F", "U+DF50", "U+DF51", "U+DF52", "U+DF53", "U+DF54", "U+DF55", "U+DF56", "U+DF57",
     "U+DF58", "U+DF59", "U+DF5A", "U+DF5B", "U+DF5C", "U+DF5D", "U+DF5E", "U+DF5F", "U+DF60", "U+DF61",
     "U+DF62", "U+DF63", "U+DF64", "U+DF65", "U+DF66", "U+DF67", "U+DF68", "U+DF69", "U+DF6A", "U+DF6B",
     "U+DF6C", "U+DF6D", "U+DF6E", "U+DF6F", "U+DF70", "U+DF71", "U+DF72", "U+DF73", "U+DF74", "U+DF75",
     "U+DF76", "U+DF77", "U+DF78", "U+DF79", "U+DF7A", "U+DF7B", "U+DF7C", "U+DF7D", "U+DF7E", "U+DF7F",
     "U+DF80", "U+DF81", "U+DF82", "U+DF83", "U+DF84", "U+DF85", "U+DF86", "U+DF87", "U+DF88", "U+DF89",
     "U+DF8A", "U+DF8B", "U+DF8C", "U+DF8D", "U+DF8E", "U+DF8F", "U+DF90", "U+DF91", "U+DF92", "U+DF93",
     "U+DF94", "U+DF95", "U+DF96", "U+DF97", "U+DF98", "U+DF99", "U+DF9A", "U+DF9B", "U+DF9C", "U+DF9D",
     "U+DF9E", "U+DF9F", "U+DFA0", "U+DFA1", "U+DFA2", "U+DFA3", "U+DFA4", "U+DFA5", "U+DFA6", "U+DFA7",
     "U+DFA8", "U+DFA9", "U+DFAA", "U+DFAB", "U+DFAC", "U+DFAD", "U+DFAE", "U+DFAF", "U+DFB0", "U+DFB1",
     "U+DFB2", "U+DFB3", "U+DFB4", "U+DFB5", "U+DFB6", "U+DFB7", "U+DFB8", "U+DFB9", "U+DFBA", "U+DFBB",
     "U+DFBC", "U+DFBD", "U+DFBE", "U+DFBF", "U+DFC0", "U+DFC1", "U+DFC2", "U+DFC3", "U+DFC4", "U+DFC5",
     "U+DFC6", "U+DFC7", "U+DFC8", "U+DFC9", "U+DFCA", "U+DFCB", "U+DFCC", "U+DFCD", "U+DFCE", "U+DFCF",
     "U+DFD0", "U+DFD1", "U+DFD2", "U+DFD3", "U+DFD4", "U+DFD5", "U+DFD6", "U+DFD7", "U+DFD8", "U+DFD9",
     "U+DFDA", "U+DFDB", "U+DFDC", "U+DFDD", "U+DFDE", "U+DFDF", "U+DFE0", "U+DFE1", "U+DFE2", "U+DFE3",
     "U+DFE4", "U+DFE5", "U+DFE6", "U+DFE7", "U+DFE8", "U+DFE9", "U+DFEA", "U+DFEB", "U+DFEC", "U+DFED",
     "U+DFEE", "U+DFEF", "U+DFF0", "U+DFF1", "U+DFF2", "U+DFF3", "U+DFF4", "U+DFF5", "U+DFF6", "U+DFF7",
     "U+DFF8", "U+DFF9", "U+DFFA", "U+DFFB", "U+DFFC", "U+DFFD", "U+DFFE", "U+DFFF" >>

HighSurrogates == {SurrogateUnits[i] : i \in 1..1024}

LowSurrogates == {SurrogateUnits[i] : i \in 1025..2048}

HexDigits == <<"0","1","2","3","4","5","6","7","8","9","a","b","c","d","e","f">>

\* the escape JSON.stringify writes for a lone surrogate: \u and the four
\* hexadecimal digits of the code unit, in lower case
SurrogateEscape(c) ==
  \* 55296 is the code unit U+D800
  LET n == 55296 + (CHOOSE i \in 1..2048 : SurrogateUnits[i] = c) - 1
  IN  <<"\\", "u", HexDigits[(n \div 4096) + 1], HexDigits[((n \div 256) % 16) + 1],
        HexDigits[((n \div 16) % 16) + 1], HexDigits[(n % 16) + 1]>>

\* position i of s holds one half of a surrogate pair
InPair(s, i) ==
  \/ s[i] \in HighSurrogates /\ i < Len(s) /\ s[i + 1] \in LowSurrogates
  \/ s[i] \in LowSurrogates /\ i > 1 /\ s[i - 1] \in HighSurrogates

\* JSON.stringify of a string: quotes, with " \ the control characters and the
\* lone surrogates escaped
JsonString(s) ==
  <<"\"">> \o
  Flatten([i \in 1..Len(s) |->
            CASE s[i] = "\""  -> <<"\\", "\"">>
              [] s[i] = "\\"  -> <<"\\", "\\">>
              [] s[i] = "U+0008" -> <<"\\", "b">>
              [] s[i] = "\f"  -> <<"\\", "f">>
              [] s[i] = "\n"  -> <<"\\", "n">>
              [] s[i] = "\t"  -> <<"\\", "t">>
              [] s[i] = "\r"  -> <<"\\", "r">>
              [] s[i] \in DOMAIN ControlEscapes -> ControlEscapes[s[i]]
              [] s[i] \in HighSurrogates \cup LowSurrogates /\ ~InPair(s, i) ->
                   SurrogateEscape(s[i])
              [] OTHER        -> <<s[i]>>]) \o
  <<"\"">>

\* JSON.stringify of a value of the model
JsonStringify(v) ==
  CASE v.t = "str"   -> JsonString(v.s)
    [] v.t = "num"   -> NatToStr(v.n)
    [] v.t = "bool"  -> IF v.n = 1 THEN <<"t","r","u","e">> ELSE <<"f","a","l","s","e">>
    [] v.t = "obj"   -> <<"{","}">>
    [] v.t = "arr"   -> <<"[">> \o Join([i \in 1..Len(v.a) |-> JsonString(v.a[i])], <<",">>) \o <<"]">>
    [] OTHER         -> <<"n","u","l","l">>

(***************************************************************************)
(* escapeHtmlAttr, toKebab, clamp                                          *)
(***************************************************************************)
\* the replacement table without its entries for the two quotes
EscapeCharKeepsQuotes(c) ==
  CASE c = "&"  -> <<"&","a","m","p",";">>
    [] c = "<"  -> <<"&","l","t",";">>
    [] c = ">"  -> <<"&","g","t",";">>
    [] OTHER    -> <<c>>

\* the replacement table of src/server/server.js:36-42 and src/unnamed/part_003:56
EscapeChar(c) ==
  CASE c = "&"  -> <<"&","a","m","p",";">>
    [] c = "<"  -> <<"&","l","t",";">>
    [] c = ">"  -> <<"&","g","t",";">>
    [] c = "\"" -> <<"&","q","u","o","t",";">>
    [] c = "'"  -> <<"&","#","3","9",";">>
    [] OTHER    -> <<c>>

\* s.replace(/[&<>"']/g, m => table[m])
escapeHtmlAttr(s) == Flatten([i \in 1..Len(s) |-> EscapeChar(s[i])])

\* s.length > n ? s.slice(0, n) : s
clamp(s, n) == IF Len(s) > n THEN SubSeq(s, 1, n) ELSE s

\* s.replace(/C+/g, r): every maximal run of characters of the class C becomes r
CollapseRuns(s, C, r) ==
  Flatten([i \in 1..Len(s) |->
            IF s[i] \notin C THEN <<s[i]>>
            ELSE IF i > 1 /\ s[i - 1] \in C THEN << >>
            ELSE r])

IsKebabChar(c) == IsLowerAlpha(c) \/ IsDigit(c) \/ c = "-"

\* .toLowerCase().replace(/[_\s]+/g, "-").replace(/[^a-z0-9-]+/g, "") of
\* src/unnamed/part_003:62-64, the three calls as one. The last replace keeps of a
\* lower case only what lies in [a-z0-9-]: the lower case of A-Z, the k that KELVIN
\* SIGN (U+212A) becomes, and the i of the i and COMBINING DOT ABOVE that U+0130
\* becomes. The lower case of every other character is removed as the character is,
\* and no lower case is or was a character of [_\s].
LowerKebabChars(s) ==
  LET kept(c) == CASE c = "U+212A" -> "k"
                   [] c = "U+0130" -> "i"
                   [] OTHER        -> toLowerChar(c)
      a == [i \in 1..Len(s) |-> kept(s[i])]
      b == CollapseRuns(a, WS \cup {"_"}, <<"-">>)
  IN  SelectSeq(b, IsKebabChar)

\* src/unnamed/part_003:58-66
toKebab(s) ==
  LET c == LowerKebabChars(trim(s))
      \* .replace(/-+/g, "-")
      d == CollapseRuns(c, {"-"}, <<"-">>)
      \* .replace(/^-|-$/g, "")
      e == IF d # << >> /\ Head(d) = "-" THEN Tail(d) ELSE d
      f == IF e # << >> /\ e[Len(e)] = "-" THEN SubSeq(e, 1, Len(e) - 1) ELSE e
  IN  f

(***************************************************************************)
(* ensureFullDoc                                                           *)
(***************************************************************************)
\* /<\s*html[\s>]/i
HasHtmlTag(s) ==
  \E i \in 1..Len(s) :
     /\ s[i] = "<"
     /\ LET j == SkipWs(s, i + 1)
        IN  /\ MatchAtCI(s, j, HtmlWord)
            /\ j + 4 <= Len(s)
            /\ (IsWs(s[j + 4]) \/ s[j + 4] = ">")

\* /<!doctype html>/i
HasDoctype(s) == \E i \in 1..Len(s) : MatchAtCI(s, i, <<"<","!","d","o","c","t","y","p","e"," ","h","t","m","l",">">>)

\* the test for the tag written as /<html>/ alone
hasHtmlExactTag(html) == Contains(html, <<"<","h","t","m","l",">">>)

hasHtml(html) == HasHtmlTag(html) \/ HasDoctype(html)

Website == JStr(<<"W","e","b","s","i","t","e">>)

\* src/server/server.js:45-55
ShellServer(safeTitle, html) ==
  <<"<","!","d","o","c","t","y","p","e"," ","h","t","m","l",">","\n","<","h","t","m","l"," ","l",
      "a","n","g","=","\"","e","n","\"",">","\n","<","h","e","a","d",">","\n","<","m","e","t",
      "a"," ","c","h","a","r","s","e","t","=","\"","u","t","f","-","8","\"","/",">","\n">> \o
  <<"<","m","e","t","a"," ","n","a","m","e","=","\"","v","i","e","w","p","o","r","t","\""," ","c",
      "o","n","t","e","n","t","=","\"","w","i","d","t","h","=","d","e","v","i","c","e","-","w",
      "i","d","t","h",",","i","n","i","t","i","a","l","-","s","c","a","l","e","=","1","\"","/",
      ">","\n">> \o
  <<"<","t","i","t","l","e",">">> \o safeTitle \o <<"<","/","t","i","t","l","e",">","\n","<","/","h","e","a","d",">","\n","<","b","o","d","y",">",
      "\n">> \o
  html \o <<"\n","<","/","b","o","d","y",">","\n","<","/","h","t","m","l",">">>

\* src/server/server.js:26-56
ensureFullDocServer(html, spec) ==
  IF hasHtml(html) THEN html
  ELSE ShellServer(escapeHtmlAttr(ToStr(OrElse(spec.projectName, Website))), html)

\* src/unnamed/part_003:73-94
ShellPart003(title, description, canonical, name, html) ==
  <<"<","!","d","o","c","t","y","p","e"," ","h","t","m","l",">","\n","<","h","t","m","l"," ","l",
      "a","n","g","=","\"","e","n","\"",">","\n","<","h","e","a","d",">","\n","<","m","e","t",
      "a"," ","c","h","a","r","s","e","t","=","\"","u","t","f","-","8","\"","/",">","\n">> \o
  <<"<","m","e","t","a"," ","n","a","m","e","=","\"","v","i","e","w","p","o","r","t","\""," ","c",
      "o","n","t","e","n","t","=","\"","w","i","d","t","h","=","d","e","v","i","c","e","-","w",
      "i","d","t","h",",","i","n","i","t","i","a","l","-","s","c","a","l","e","=","1","\"","/",
      ">","\n">> \o
  <<"<","t","i","t","l","e",">">> \o title \o <<"<","/","t","i","t","l","e",">","\n">> \o
  <<"<","m","e","t","a"," ","n","a","m","e","=","\"","d","e","s","c","r","i","p","t","i","o","n",
      "\""," ","c","o","n","t","e","n","t","=","\"">> \o description \o <<"\"","/",">","\n">> \o
  <<"<","l","i","n","k"," ","r","e","l","=","\"","c","a","n","o","n","i","c","a","l","\""," ","h",
      "r","e","f","=","\"">> \o canonical \o <<"\"","/",">","\n">> \o
  <<"<","!","-","-"," ","O","p","e","n"," ","G","r","a","p","h"," ","m","i","n","i","m","a","l",
      " ","-","-",">","\n">> \o
  <<"<","m","e","t","a"," ","p","r","o","p","e","r","t","y","=","\"","o","g",":","t","i","t","l",
      "e","\""," ","c","o","n","t","e","n","t","=","\"">> \o title \o <<"\"","/",">","\n">> \o
  <<"<","m","e","t","a"," ","p","r","o","p","e","r","t","y","=","\"","o","g",":","d","e","s","c",
      "r","i","p","t","i","o","n","\""," ","c","o","n","t","e","n","t","=","\"">> \o description \o <<"\"","/",">","\n">> \o
  <<"<","m","e","t","a"," ","p","r","o","p","e","r","t","y","=","\"","o","g",":","t","y","p","e",
      "\""," ","c","o","n","t","e","n","t","=","\"","w","e","b","s","i","t","e","\"","/",">",
      "\n">> \o
  <<"<","s","c","r","i","p","t"," ","t","y","p","e","=","\"","a","p","p","l","i","c","a","t","i",
      "o","n","/","l","d","+","j","s","o","n","\"",">","\n">> \o
  <<"{","\"","@","c","o","n","t","e","x","t","\"",":","\"","h","t","t","p","s",":","/","/","s",
      "c","h","e","m","a",".","o","r","g","\"",",","\"","@","t","y","p","e","\"",":","\"","O",
      "r","g","a","n","i","z","a","t","i","o","n","\"",",","\"","n","a","m","e","\"",":">> \o name \o <<"}">> \o
  <<"\n","<","/","s","c","r","i","p","t",">","\n","<","/","h","e","a","d",">","\n","<","b","o",
      "d","y",">">> \o html \o <<"<","/","b","o","d","y",">","\n","<","/","h","t","m","l",">">>

\* escapeHtmlAttr(spec.canonical || "") throws a TypeError (s.replace is not a
\* function) when spec.canonical is truthy and no string: src/unnamed/part_003:80
FinalizeThrows(v, html, spec) ==
  /\ v = "part003"
  /\ ~hasHtml(html)
  /\ Truthy(spec.canonical)
  /\ spec.canonical.t # "str"

\* src/unnamed/part_003:68-95 (where it does not throw)
ensureFullDocPart003(html, spec) ==
  IF hasHtml(html) THEN html
  ELSE ShellPart003(
         escapeHtmlAttr(ToStr(OrElse(spec.seoTitle, OrElse(spec.projectName, Website)))),
         escapeHtmlAttr(ToStr(OrElse(spec.seoDescription, OrElse(spec.brief, JStr(<< >>))))),
         escapeHtmlAttr(ToStr(OrElse(spec.canonical, JStr(<< >>)))),
         JsonStringify(OrElse(spec.projectName, Website)),
         html)

ensureFullDoc(v, html, spec) ==
  IF v = "server" THEN ensureFullDocServer(html, spec) ELSE ensureFullDocPart003(html, spec)

(***************************************************************************)
(* Program constants                                                       *)
(***************************************************************************)
\* if (html && html.length > 50) break;
MinHtmlLen == 50

\* if (!html || html.length < 20) -> 502
MinUsableLen == 20

\* if (!text || text.trim().length < 20) -> "Empty or too short model output"
MinTextLen == 20

\* clamp(String(spec.brief || ""), 4000)
MaxBriefLen == 4000

\* .slice(0, 200) of projectName, style and tone
MaxFieldLen == 200

\* .slice(0, 20) of primaryColor
MaxColorLen == 20

Variants == {"server", "part003"}

\* const modelIds = [...]
modelIds(v) ==
  IF v = "server"
  THEN <<"x-ai/grok-code-fast-1", "openai/gpt-4o", "anthropic/claude-3.5-sonnet",
         "deepseek/deepseek-chat">>
  ELSE <<"gemini-2.0-flash-exp", "gemini-2.0-flash", "gemini-1.5-flash">>

(***************************************************************************)
(* Requests                                                                *)
(***************************************************************************)
\* the bound on the length of the pages array of a request
MaxPages == 2

Home == <<"h","o","m","e">>

PageNames == {<<"A","b","o","u","t"," ","U","s","!">>, <<"H","o","m","e">>}

SeqsUpTo(S, n) == UNION {[1..k -> S] : k \in 0..n}

PagesValues == {Undef, JStr(Home)} \cup {JArr(a) : a \in SeqsUpTo(PageNames, MaxPages)}

BriefValues ==
  {Undef, JNull, JStr(<< >>), JStr(<<"A"," ","b","a","k","e","r","y">>), JNum(0), JNum(42), JBool(TRUE),
   JBool(FALSE), JObj, JArr(<< >>)}

NameValues == {Undef, JStr(<<"T","o","m"," ","&"," ","\"","C","o","\"">>), JNum(7)}

CanonicalValues == {Undef, JStr(<<"h","t","t","p","s",":","/","/","a",".","e","x","a","m","p","l","e","/">>), JNum(1)}

\* a request body { spec }: present is FALSE when the body holds no spec object
\* a page name longer than every clamp of the normalizer
LongPageName == [i \in 1..(MaxBriefLen + 1) |-> "a"]

BaseSpec ==
  [present |-> TRUE, brief |-> JStr(<<"A"," ","b","a","k","e","r","y">>), projectName |-> Undef,
   seoTitle |-> Undef, seoDescription |-> Undef, canonical |-> Undef, pages |-> Undef,
   primaryColor |-> Undef, style |-> Undef, tone |-> Undef]

Requests ==
  {[BaseSpec EXCEPT !.present = FALSE, !.brief = Undef]}
  \cup {[BaseSpec EXCEPT !.brief = b] : b \in BriefValues}
  \cup {[BaseSpec EXCEPT !.pages = p] : p \in PagesValues}
  \cup {[BaseSpec EXCEPT !.pages = JArr(<<LongPageName>>)]}
  \cup {[BaseSpec EXCEPT !.projectName = n] : n \in NameValues}
  \cup {[BaseSpec EXCEPT !.canonical = c] : c \in CanonicalValues}

\* spec?.brief
BriefOf(spec) == IF spec.present THEN spec.brief ELSE Undef

\* src/server/server.js:99-106
safeServer(spec) ==
  [projectName  |-> OrElse(spec.projectName, Website),
   brief        |-> OrElse(spec.brief, JStr(<< >>)),
   primaryColor |-> OrElse(spec.primaryColor, JStr(<<"#","4","f","4","6","e","5">>)),
   style        |-> OrElse(spec.style, JStr(<<"m","o","d","e","r","n",","," ","c","l","e","a","n">>)),
   tone         |-> OrElse(spec.tone, JStr(<<"p","r","o","f","e","s","s","i","o","n","a","l">>)),
   pages        |-> IF spec.pages.t = "arr" THEN spec.pages.a ELSE << >>]

\* spec.pages.map((p) => toKebab(String(p))).filter(Boolean), then
\* if (!safe.pages.includes("home")) safe.pages.unshift("home")
normalizePages(pages) ==
  LET slugs == IF pages.t = "arr"
               THEN SelectSeq([i \in 1..Len(pages.a) |-> toKebab(pages.a[i])],
                              LAMBDA p : p # << >>)
               ELSE << >>
  IN  IF \E i \in 1..Len(slugs) : slugs[i] = Home THEN slugs ELSE <<Home>> \o slugs

\* src/unnamed/part_003:151-163
safePart003(spec) ==
  [projectName  |-> JStr(clamp(ToStr(OrElse(spec.projectName, Website)), MaxFieldLen)),
   brief        |-> JStr(clamp(ToStr(OrElse(spec.brief, JStr(<< >>))), MaxBriefLen)),
   primaryColor |-> JStr(clamp(ToStr(OrElse(spec.primaryColor, JStr(<<"#","4","f","4","6","e","5">>))), MaxColorLen)),
   style        |-> JStr(clamp(ToStr(OrElse(spec.style, JStr(<<"m","o","d","e","r","n",","," ","c","l","e","a","n">>))), MaxFieldLen)),
   tone         |-> JStr(clamp(ToStr(OrElse(spec.tone, JStr(<<"p","r","o","f","e","s","s","i","o","n","a","l">>))), MaxFieldLen)),
   pages        |-> normalizePages(spec.pages)]

safeOf(v, spec) == IF v = "server" THEN safeServer(spec) ELSE safePart003(spec)

\* the template of src/unnamed/part_003:166-194 with the fields of safe interpolated
PromptText(sf) ==
  <<"\n">> \o
  <<"Y","o","u"," ","a","r","e"," ","a"," ","s","e","n","i","o","r"," ","f","r","o","n","t","e",
      "n","d"," ","e","n","g","i","n","e","e","r"," ","a","n","d"," ","U","X"," ","d","e","s",
      "i","g","n","e","r","."," ","G","e","n","e","r","a","t","e"," ","a"," ","p","r","o","d",
      "u","c","t","i","o","n","-","q","u","a","l","i","t","y",","," ","f","u","l","l","y"," ",
      "r","e","s","p","o","n","s","i","v","e",","," ","s","i","n","g","l","e","-","f","i","l",
      "e"," ","w","e","b","s","i","t","e"," ","w","i","t","h",":","\n">> \o
  <<"-"," ","S","t","r","i","c","t","l","y"," ","O","N","E"," ","c","o","m","p","l","e","t","e",
      " ","H","T","M","L"," ","d","o","c","u","m","e","n","t","."," ","N","o"," ","m","a","r",
      "k","d","o","w","n","."," ","N","o"," ","c","o","d","e"," ","f","e","n","c","e","s",".",
      "\n">> \o
  <<"-"," ","s","t","r","i","c","t","l","y"," ","w","r","i","t","e"," ","w","h","o","l","e"," ",
      "c","s","s"," ","i","n"," ","t","h","e"," ","H","T","M","L"," ","d","o","c","u","m","e",
      "n","t",","," ","e","i","t","h","e","r"," ","u","s","e"," ","i","n","l","i","n","e"," ",
      "o","r"," ","i","n","t","e","r","n","a","l"," ","c","s","s","\n">> \o
  <<"-"," ","V","a","n","i","l","l","a"," ","J","a","v","a","S","c","r","i","p","t"," ","o","n",
      "l","y"," ","i","n","s","i","d","e"," ","a"," ","s","i","n","g","l","e"," ","<","s","c",
      "r","i","p","t",">"," ","t","a","g"," ","n","e","a","r"," ","t","h","e"," ","e","n","d",
      " ","o","f"," ","<","b","o","d","y",">","."," ","N","o"," ","e","x","t","e","r","n","a",
      "l"," ","l","i","b","r","a","r","i","e","s",".","\n">> \o
  <<"-"," ","d","o","n","'","t"," ","g","i","v","e"," ","h","r","e","f","=","\"","#","\""," ","i",
      "n"," ","a","n","c","h","o","r"," ","t","a","g",","," ","g","i","v","e"," ","c","l","a",
      "s","s"," ","n","a","m","e"," ","i","n","s","t","e","a","d","\n">> \o
  <<"\n">> \o
  <<"R","e","q","u","i","r","e","m","e","n","t","s",":","\n">> \o
  <<"-"," ","S","t","r","u","c","t","u","r","e",":"," ","s","e","m","a","n","t","i","c"," ","s",
      "e","c","t","i","o","n","s"," ","(","<","h","e","a","d","e","r",">",","," ","<","n","a",
      "v",">",","," ","<","m","a","i","n",">",","," ","<","s","e","c","t","i","o","n",">",",",
      " ","<","f","o","o","t","e","r",">",")",","," ","o","n","e"," ","s","e","c","t","i","o",
      "n"," ","p","e","r"," ","p","a","g","e",":"," ">> \o
  Join(sf.pages, <<","," ">>) \o
  <<"."," ","G","i","v","e"," ","e","a","c","h"," ","s","e","c","t","i","o","n"," ","a","n"," ",
      "i","d"," ","m","a","t","c","h","i","n","g"," ","i","t","s"," ","p","a","g","e"," ","n",
      "a","m","e"," ","(","k","e","b","a","b","-","c","a","s","e",")","."," ","I","n","c","l",
      "u","d","e"," ","a"," ","h","e","r","o"," ","o","n"," ","H","o","m","e",".","\n">> \o
  <<"-"," ","N","a","v","i","g","a","t","i","o","n",":"," ","s","t","i","c","k","y"," ","t","o",
      "p"," ","n","a","v"," ","w","i","t","h"," ","l","i","n","k","s"," ","t","h","a","t"," ",
      "s","m","o","o","t","h","-","s","c","r","o","l","l"," ","t","o"," ","s","e","c","t","i",
      "o","n","s",";"," ","a","c","t","i","v","e"," ","l","i","n","k"," ","h","i","g","h","l",
      "i","g","h","t","i","n","g"," ","o","n"," ","s","c","r","o","l","l",";"," ","m","o","b",
      "i","l","e"," ","m","e","n","u"," ","w","i","t","h"," ","h","a","m","b","u","r","g","e",
      "r"," ","t","o","g","g","l","e",".","\n">> \o
  <<"-"," ","S","t","y","l","i","n","g",":"," ","u","s","e"," ","C","S","S"," ","v","a","r","i",
      "a","b","l","e","s",","," ","s","e","t"," ","-","-","p","r","i","m","a","r","y"," ","t",
      "o"," ">> \o
  sf.primaryColor.s \o
  <<"."," ","A","p","p","l","y"," ","a"," ","m","o","d","e","r","n"," ">> \o
  sf.style.s \o
  <<" ","l","o","o","k"," ","a","n","d"," ","a"," ">> \o
  sf.tone.s \o
  <<" ","t","o","n","e","."," ","R","e","s","p","e","c","t"," ","p","r","e","f","e","r","s","-",
      "c","o","l","o","r","-","s","c","h","e","m","e",";"," ","p","r","o","v","i","d","e"," ",
      "l","i","g","h","t","/","d","a","r","k"," ","t","h","e","m","e"," ","t","o","g","g","l",
      "e",".","\n">> \o
  <<"-"," ","L","a","y","o","u","t",":"," ","f","l","u","i","d",","," ","m","o","b","i","l","e",
      "-","f","i","r","s","t"," ","g","r","i","d",";"," ","a","c","c","e","s","s","i","b","l",
      "e"," ","c","o","l","o","r"," ","c","o","n","t","r","a","s","t",";"," ","f","o","c","u",
      "s"," ","o","u","t","l","i","n","e","s",";"," ","s","k","i","p","-","t","o","-","c","o",
      "n","t","e","n","t"," ","l","i","n","k",".","\n">> \o
  <<"-"," ","I","n","t","e","r","a","c","t","i","v","i","t","y",":"," ","i","m","p","l","e","m",
      "e","n","t"," ","s","m","o","o","t","h","-","s","c","r","o","l","l",","," ","s","e","c",
      "t","i","o","n"," ","a","c","t","i","v","e"," ","s","t","a","t","e",","," ","b","a","c",
      "k","-","t","o","-","t","o","p"," ","b","u","t","t","o","n",","," ","s","i","m","p","l",
      "e"," ","t","a","b","s"," ","O","R"," ","c","a","r","o","u","s","e","l"," ","c","o","m",
      "p","o","n","e","n","t",","," ","a","n","d"," ","a"," ","b","a","s","i","c"," ","c","o",
      "n","t","a","c","t"," ","f","o","r","m"," ","w","i","t","h"," ","c","l","i","e","n","t",
      "-","s","i","d","e"," ","v","a","l","i","d","a","t","i","o","n"," ","(","n","o"," ","n",
      "e","t","w","o","r","k"," ","c","a","l","l","s",")","."," ","P","e","r","s","i","s","t",
      " ","t","h","e","m","e"," ","c","h","o","i","c","e"," ","i","n"," ","l","o","c","a","l",
      "S","t","o","r","a","g","e",".","\n">> \o
  <<"-"," ","A","s","s","e","t","s",":"," ","d","o"," ","n","o","t"," ","l","o","a","d"," ","e",
      "x","t","e","r","n","a","l"," ","f","o","n","t","s","/","i","m","a","g","e","s","."," ",
      "U","s","e"," ","s","y","s","t","e","m"," ","f","o","n","t"," ","s","t","a","c","k",".",
      " ","F","o","r"," ","i","m","a","g","e","s",","," ","u","s","e"," ","p","l","a","c","e",
      "h","o","l","d","e","r"," ","S","V","G","s"," ","o","r"," ","g","r","a","d","i","e","n",
      "t","s"," ","i","n","l","i","n","e",".","\n">> \o
  <<"-"," ","C","o","n","t","e","n","t",":"," ","c","r","a","f","t"," ","m","e","a","n","i","n",
      "g","f","u","l",","," ","c","o","n","c","i","s","e"," ","c","o","p","y"," ","a","l","i",
      "g","n","e","d"," ","w","i","t","h"," ","t","h","e"," ","b","r","i","e","f"," ","a","n",
      "d"," ","p","r","o","j","e","c","t"," ","n","a","m","e",".","\n">> \o
  <<"-"," ","S","E","O",":"," ","i","n","c","l","u","d","e"," ","<","t","i","t","l","e",">",",",
      " ","m","e","t","a"," ","d","e","s","c","r","i","p","t","i","o","n",","," ","c","a","n",
      "o","n","i","c","a","l"," ","(","s","e","l","f",")",","," ","O","p","e","n"," ","G","r",
      "a","p","h",","," ","a","n","d"," ","J","S","O","N","-","L","D"," ","O","r","g","a","n",
      "i","z","a","t","i","o","n"," ","s","c","h","e","m","a"," ","w","i","t","h"," ">> \o
  sf.projectName.s \o
  <<".","\n">> \o
  <<"-"," ","P","e","r","f","o","r","m","a","n","c","e",":"," ","a","v","o","i","d"," ","h","e",
      "a","v","y"," ","b","o","x","-","s","h","a","d","o","w","s",";"," ","k","e","e","p"," ",
      "C","S","S"," ","m","i","n","i","m","a","l",";"," ","a","v","o","i","d"," ","o","v","e",
      "r","s","i","z","e","d"," ","D","O","M",";"," ","n","o"," ","a","n","i","m","a","t","i",
      "o","n","s"," ","t","h","a","t"," ","h","a","r","m"," ","m","o","t","i","o","n","-","s",
      "e","n","s","i","t","i","v","e"," ","u","s","e","r","s",";"," ","r","e","s","p","e","c",
      "t"," ","p","r","e","f","e","r","s","-","r","e","d","u","c","e","d","-","m","o","t","i",
      "o","n",".","\n">> \o
  <<"-"," ","A","c","c","e","s","s","i","b","i","l","i","t","y",":"," ","A","R","I","A"," ","w",
      "h","e","r","e"," ","n","e","e","d","e","d",";"," ","l","a","b","e","l","s"," ","f","o",
      "r"," ","i","n","p","u","t","s",";"," ","r","e","a","c","h","a","b","l","e"," ","w","i",
      "t","h"," ","k","e","y","b","o","a","r","d",";"," ","a","l","t"," ","t","e","x","t"," ",
      "f","o","r"," ","d","e","c","o","r","a","t","i","v","e"," ","p","l","a","c","e","h","o",
      "l","d","e","r","s"," ","c","a","n"," ","b","e"," ","e","m","p","t","y",".","\n">> \o
  <<"\n">> \o
  <<"I","n","p","u","t"," ","c","o","n","t","e","x","t",":","\n">> \o
  <<"-"," ","P","r","o","j","e","c","t",":"," ">> \o
  sf.projectName.s \o
  <<"\n">> \o
  <<"-"," ","B","r","i","e","f",":"," ">> \o
  sf.brief.s \o
  <<"\n">> \o
  <<"-"," ","P","a","g","e","s",":"," ">> \o
  Join(sf.pages, <<","," ">>) \o
  <<"\n">> \o
  <<"\n">> \o
  <<"O","u","t","p","u","t",":","\n">> \o
  <<"-"," ","R","e","t","u","r","n"," ","O","N","L","Y"," ","t","h","e"," ","f","i","n","a","l",
      " ","H","T","M","L"," ","s","t","r","i","n","g"," ","f","o","r"," ","a"," ","c","o","m",
      "p","l","e","t","e"," ","d","o","c","u","m","e","n","t"," ","(","<","!","d","o","c","t",
      "y","p","e"," ","h","t","m","l",">"," ",".",".","."," ","<","/","h","t","m","l",">",")",
      ","," ","n","o","t","h","i","n","g"," ","e","l","s","e",".","\n">>

\* const prompt = `...`.trim()
Prompt(sf) == trim(PromptText(sf))

(***************************************************************************)
(* Provider outcomes                                                       *)
(***************************************************************************)
TxtShort == <<"h","i">>

TxtMidDoc == <<"<","h","t","m","l",">","<","b","o","d","y",">","h","e","l","l","o"," ","w","o","r","l","d",
      "<","/","b","o","d","y",">","<","/","h","t","m","l",">">>

TxtDoc50 == <<"<","h","t","m","l",">","<","b","o","d","y",">","<","h","1",">","H","e","l","l","o",","," ",
      "w","o","r","l","d","!","!","!","<","/","h","1",">","<","/","b","o","d","y",">","<","/",
      "h","t","m","l",">">>

TxtFencedDoc ==
  <<BQ,BQ,BQ,"h","t","m","l","\n","<","!","d","o","c","t","y","p","e"," ","h","t","m","l",">",
      "\n","<","h","t","m","l",">","<","h","e","a","d",">","<","t","i","t","l","e",">","S","i",
      "t","e","<","/","t","i","t","l","e",">","<","/","h","e","a","d",">">> \o
  <<"<","b","o","d","y",">","<","h","1",">","H","i","<","/","h","1",">","<","/","b","o","d","y",
      ">","<","/","h","t","m","l",">","\n",BQ,BQ,BQ>>

TxtDoctypeOnly == <<"<","!","d","o","c","t","y","p","e"," ","h","t","m","l",">","\n","<","t","i","t","l","e",">",
      "S","i","t","e","<","/","t","i","t","l","e",">","\n","<","h","1",">","W","e","l","c","o",
      "m","e"," ","t","o"," ","t","h","e"," ","s","i","t","e","<","/","h","1",">">>

TxtFragment == <<"<","h","1",">","W","e","l","c","o","m","e","<","/","h","1",">","<","p",">","F","r","e","s",
      "h"," ","b","r","e","a","d"," ","d","a","i","l","y","<","/","p",">">>

\* a fenced document of 13 characters
TxtTinyFenced == <<BQ,BQ,BQ,"h","t","m","l","\n","<","h","t","m","l",">","<","/","h","t","m","l",">","\n",BQ,BQ,
      BQ>>

\* the texts the OpenRouter models answer with
ServerTexts == {TxtShort, TxtMidDoc, TxtDoc50, TxtFencedDoc, TxtDoctypeOnly, TxtTinyFenced}

\* the texts the Gemini models answer with
Part003Texts == {TxtMidDoc, TxtFencedDoc, TxtDoctypeOnly, TxtFragment, TxtTinyFenced}

Outcome(kind, text, msg) == [kind |-> kind, text |-> text, msg |-> msg]

\* what one call of callOpenRouter meets: fetch rejects ("neterr"), a non-2xx status
\* with the body msg ("http"), a 2xx body without choices[0].message.content
\* ("nocontent"), or a 2xx body with the content text ("content")
ServerOutcomes ==
  {Outcome("neterr", << >>, "fetch failed"), Outcome("http", << >>, "rate limited"),
   Outcome("nocontent", << >>, "")}
  \cup {Outcome("content", t, "") : t \in ServerTexts}

\* what generatePromise settles to: a rejection ("reject"), a null result ("null"),
\* or a result whose response.text() returns text ("text")
Part003Outcomes ==
  {Outcome("reject", << >>, "503 Service Unavailable"), Outcome("null", << >>, "")}
  \cup {Outcome("text", t, "") : t \in Part003Texts}

\* the outcome recorded for an attempt that the timer of withTimeout ended
TimedOut == Outcome("timeout", << >>, "timeout")

\* the result of a call: ok with the returned text, or thrown with the error message
Returned(text) == [ok |-> TRUE, text |-> text, msg |-> ""]

Thrown(msg) == [ok |-> FALSE, text |-> << >>, msg |-> msg]

\* src/server/server.js:59-88
callOpenRouter(o) ==
  CASE o.kind = "neterr"  -> Thrown(o.msg)
    [] o.kind = "http"    -> Thrown("OpenRouter error: " \o o.msg)
    [] OTHER              -> Returned(o.text)

\* src/unnamed/part_003:98-136, on the result shapes of the model
extractTextFromModelResult(o) == IF o.kind = "null" THEN << >> ELSE o.text

(***************************************************************************)
(* The state of one deployment handling one request to POST /api/generate  *)
(***************************************************************************)
VARIABLES
  variant,    \* which backend is deployed: "server" or "part003"
  pc,         \* "idle": no request yet; "await": the handler awaits a provider call;
              \* "extract": the handler awaits the text of the result (part_003);
              \* "done": the response is sent; "off": the handler is not under study
  spec,       \* req.body.spec
  safe,       \* the normalized spec
  idx,        \* the position in modelIds of the candidate being tried
  html,       \* let html
  lastErr,    \* let lastErr: [has, message]
  tried,      \* const tried
  response,   \* the response sent, status 0 while none is
  inflight,   \* the positions of the candidates whose provider call is outstanding
  calls,      \* the model ids of the provider calls issued, in order
  outcomes,   \* what each attempt the handler has dealt with met, in order
  result,     \* part_003: the result the awaited call resolved with, while the
              \* handler awaits extractTextFromModelResult(result)
  timers,     \* part_003: the positions of the candidates whose timer of
              \* withTimeout is set and has not fired
  fstage,     \* the Document Finalizer alone: "input", "stripped", "final", "final2"
  fv,         \* the variant whose finalizer is applied
  fparts,     \* the input text in parts: [lead, open, body, close, trail]
  fspec,      \* the spec handed to ensureFullDoc
  fcur,       \* the current text
  fprev       \* the text before the last step

hvars == <<variant, pc, spec, safe, idx, html, lastErr, tried, response, inflight, calls,
           outcomes, result, timers>>

fvars == <<fstage, fv, fparts, fspec, fcur, fprev>>

vars == <<hvars, fvars>>

NoErr == [has |-> FALSE, message |-> ""]

Err(msg) == [has |-> TRUE, message |-> msg]

NoResponse ==
  [status |-> 0, error |-> "", details |-> NoErr, tried |-> << >>, html |-> << >>]

\* res.status(400).json({ error: "spec.brief is required" })
R400 == [NoResponse EXCEPT !.status = 400, !.error = "spec.brief is required"]

\* res.status(502).json({ error, details: lastErr?.message, tried })
R502(e, t) ==
  [NoResponse EXCEPT !.status = 502, !.error = "Model did not return usable HTML",
                     !.details = e, !.tried = t]

\* res.json({ html, downloadUrl }); downloadUrl is a function of html and is left out
R200(h) == [NoResponse EXCEPT !.status = 200, !.html = h]

NoSpec == [BaseSpec EXCEPT !.present = FALSE, !.brief = Undef]

\* no result is awaiting the extraction of its text
NoResult == Outcome("none", << >>, "")

NoParts == [lead |-> << >>, open |-> << >>, body |-> << >>, close |-> << >>, trail |-> << >>]

FinalizerOff ==
  /\ fstage = "off"
  /\ fv = "server"
  /\ fparts = NoParts
  /\ fspec = NoSpec
  /\ fcur = << >>
  /\ fprev = << >>

Init ==
  /\ variant \in Variants
  /\ pc = "idle"
  /\ spec = NoSpec
  /\ safe = safeOf(variant, NoSpec)
  /\ idx = 0
  /\ html = << >>
  /\ lastErr = NoErr
  /\ tried = << >>
  /\ response = NoResponse
  /\ inflight = {}
  /\ calls = << >>
  /\ outcomes = << >>
  /\ result = NoResult
  /\ timers = {}
  /\ FinalizerOff

\* a loop without its break
SucceedsNever(h) == FALSE

\* the comparison of the break turned around
SucceedsInverted(h) == h # << >> /\ Len(h) < MinHtmlLen

\* if (html && html.length > 50) break;
Succeeds(h) == h # << >> /\ Len(h) > MinHtmlLen

\* if (!html || html.length < 20) 502, else 200
Respond(h, e, t) == IF h = << >> \/ Len(h) < MinUsableLen THEN R502(e, t) ELSE R200(h)

\* The handler from the end of one attempt to its next await or to its response:
\* h, e, t are html, lastErr and tried after the attempt, brk says that the loop
\* breaks, infl holds the calls still outstanding, tm the timers still set.
Advance(h, e, t, brk, infl, tm) ==
  /\ html' = h
  /\ lastErr' = e
  /\ IF brk \/ idx = Len(modelIds(variant))
     THEN /\ response' = Respond(h, e, t)
          /\ pc' = "done"
          /\ tried' = t
          /\ inflight' = infl
          /\ timers' = tm
          /\ UNCHANGED <<idx, calls>>
     ELSE /\ idx' = idx + 1
          \* part_003 pushes the id before the call, server.js in the finally block
          /\ tried' = IF variant = "part003" THEN Append(t, modelIds(variant)[idx + 1]) ELSE t
          /\ inflight' = infl \cup {idx + 1}
          \* withTimeout sets a timer for the call, and nothing clears it
          /\ timers' = IF variant = "part003" THEN tm \cup {idx + 1} ELSE tm
          /\ calls' = Append(calls, modelIds(variant)[idx + 1])
          /\ pc' = "await"
          /\ UNCHANGED response

\* app.post("/api/generate"): validation, normalization and the first provider call
Request(r) ==
  /\ pc = "idle"
  /\ spec' = r
  /\ IF ~Truthy(BriefOf(r))
     THEN /\ response' = R400
          /\ pc' = "done"
          /\ UNCHANGED <<safe, idx, html, lastErr, tried, inflight, calls, timers>>
     ELSE /\ safe' = safeOf(variant, r)
          /\ idx' = 1
          /\ html' = << >>
          /\ lastErr' = NoErr
          /\ tried' = IF variant = "part003" THEN <<modelIds(variant)[1]>> ELSE << >>
          /\ inflight' = {1}
          /\ timers' = IF variant = "part003" THEN {1} ELSE {}
          /\ calls' = <<modelIds(variant)[1]>>
          /\ pc' = "await"
          /\ UNCHANGED response
  /\ UNCHANGED <<variant, outcomes, result, fvars>>

\* src/server/server.js:163-174: the awaited callOpenRouter settles
ServerCallSettles(o) ==
  /\ variant = "server"
  /\ pc = "await"
  /\ outcomes' = Append(outcomes, o)
  /\ LET r == callOpenRouter(o)
         h == IF r.ok THEN ensureFullDoc(variant, stripFences(variant, r.text), spec) ELSE html
         e == IF r.ok THEN lastErr ELSE Err(r.msg)
     IN  Advance(h, e, Append(tried, modelIds(variant)[idx]), r.ok /\ Succeeds(h),
                 inflight \ {idx}, timers)
  /\ UNCHANGED <<variant, spec, safe, result, fvars>>

TooShort(text) == text = << >> \/ Len(trim(text)) < MinTextLen

\* src/unnamed/part_003:220: the awaited race of withTimeout settles with what
\* generatePromise settled to. A rejection goes to the catch block and on to the
\* next candidate; a result is handed to extractTextFromModelResult, which the
\* handler awaits in its turn (line 221), with no timer on that await.
Part003CallSettles(o) ==
  /\ variant = "part003"
  /\ pc = "await"
  /\ IF o.kind = "reject"
     THEN /\ outcomes' = Append(outcomes, o)
          /\ Advance(html, Err(o.msg), tried, FALSE, inflight \ {idx}, timers)
          /\ UNCHANGED result
     ELSE /\ pc' = "extract"
          /\ result' = o
          /\ inflight' = inflight \ {idx}
          /\ UNCHANGED <<idx, html, lastErr, tried, response, calls, outcomes, timers>>
  /\ UNCHANGED <<variant, spec, safe, fvars>>

\* src/unnamed/part_003:221-229: the awaited extractTextFromModelResult(result)
\* resolves with the text, and the handler goes on to the short-text test, to the
\* finalizer and to the next candidate or the response
Part003TextSettles ==
  /\ variant = "part003"
  /\ pc = "extract"
  /\ outcomes' = Append(outcomes, result)
  /\ result' = NoResult
  /\ LET text == extractTextFromModelResult(result)
         stripped == stripFences(variant, text)
     IN  CASE TooShort(text) ->
                Advance(html, Err("Empty or too short model output"), tried, FALSE,
                        inflight, timers)
           [] ~TooShort(text) /\ FinalizeThrows(variant, stripped, spec) ->
                Advance(html, Err("s.replace is not a function"), tried, FALSE,
                        inflight, timers)
           [] OTHER ->
                LET h == ensureFullDoc(variant, stripped, spec)
                IN  Advance(h, lastErr, tried, Succeeds(h), inflight, timers)
  /\ UNCHANGED <<variant, spec, safe, fvars>>

\* src/unnamed/part_003:139-140: the timer of the call of candidate i fires. While
\* the handler awaits that call the race rejects with "timeout"; the provider call
\* is not cancelled and stays outstanding. Once the race has settled the rejection
\* of the timer changes nothing.
TimeoutFires(i) ==
  /\ variant = "part003"
  /\ i \in timers
  /\ IF pc = "await" /\ i = idx
     THEN /\ outcomes' = Append(outcomes, TimedOut)
          /\ Advance(html, Err(TimedOut.msg), tried, FALSE, inflight, timers \ {i})
     ELSE /\ timers' = timers \ {i}
          /\ UNCHANGED <<pc, idx, html, lastErr, tried, response, inflight, calls, outcomes>>
  /\ UNCHANGED <<variant, spec, safe, result, fvars>>

\* a provider call that the timer abandoned settles; nothing reads its result
AbandonedCallSettles(i) ==
  /\ i \in inflight
  /\ ~(pc = "await" /\ i = idx)
  /\ inflight' = inflight \ {i}
  /\ UNCHANGED <<variant, pc, spec, safe, idx, html, lastErr, tried, response, calls,
                 outcomes, result, timers, fvars>>

Next ==
  \/ \E r \in Requests : Request(r)
  \/ \E o \in ServerOutcomes : ServerCallSettles(o)
  \/ \E o \in Part003Outcomes : Part003CallSettles(o)
  \/ Part003TextSettles
  \/ \E i \in 1..Len(modelIds("part003")) : TimeoutFires(i)
  \/ \E i \in 1..Len(modelIds("part003")) : AbandonedCallSettles(i)

Spec == Init /\ [][Next]_vars

\* setTimeout fires: the timer of withTimeout is the one step the code's scheduling
\* guarantees; a provider may never answer
LiveSpec == Spec /\ WF_vars(\E i \in 1..Len(modelIds("part003")) : TimeoutFires(i))

(***************************************************************************)
(* The Document Finalizer alone: stripFences and ensureFullDoc applied to   *)
(* texts given in parts lead \o open \o body \o close \o trail              *)
(***************************************************************************)
\* whitespace before the text: a space, a form feed, a no-break space, a line break
Leads == {<< >>, <<" ", "\f", "U+00A0", "\n">>}

Opens == {<< >>, <<BQ,BQ,BQ>>, <<BQ,BQ,BQ,"h","t","m","l">>, <<BQ,BQ,BQ,"h","t","m","l","\n">>, <<BQ,BQ,BQ,"H","T","M","L","\n">>, <<BQ,BQ,BQ,"\n">>, <<BQ,BQ,BQ,"j","s","\n">>}

Bodies ==
  {<< >>, <<"<","p",">","x","<","/","p",">">>, <<"<","h","t","m","l",">","<","b","o","d","y",">","x","<","/","b","o","d","y",">","<","/","h",
      "t","m","l",">">>, <<"<","!","d","o","c","t","y","p","e"," ","h","t","m","l",">","<","p",">","x","<","/","p",">">>,
   <<"h","t","m","l","5"," ","r","o","c","k","s">>, <<"<","c","o","d","e",">",BQ,"a",BQ,"<","/","c","o","d","e",">">>, <<" ","<","p",">","x","<","/","p",">","\n">>, <<"<","p",">",BQ,BQ,BQ,"<","/","p",">">>}

Closes == {<< >>, <<BQ,BQ,BQ>>, <<"\n",BQ,BQ,BQ>>}

\* whitespace after the text: a line break and a line tabulation
Trails == {<< >>, <<"\n", "U+000B">>}

PartsSet ==
  {[lead |-> l, open |-> o, body |-> b, close |-> c, trail |-> t] :
     l \in Leads, o \in Opens, b \in Bodies, c \in Closes, t \in Trails}

TextOf(p) == p.lead \o p.open \o p.body \o p.close \o p.trail

\* the specs handed to ensureFullDoc: titles and descriptions with the characters
\* of the replacement table
FinalizerSpecs ==
  {BaseSpec,
   [BaseSpec EXCEPT !.projectName = JStr(<<"T","o","m"," ","&"," ","\"","C","o","\"">>)],
   [BaseSpec EXCEPT !.projectName = JStr(<<"<","b",">","O","'","N","e","i","l","<","/","b",">">>), !.brief = JStr(<<"x"," ",">"," ","y","'","s"," ","\"","z","\"">>)],
   [BaseSpec EXCEPT !.seoTitle = JStr(<<"A","<","B"," ","&"," ","C">>), !.seoDescription = JStr(<<"s","a","y"," ","\"","h","i","\""," ","&"," ","'","b","y","e","'">>)],
   [BaseSpec EXCEPT !.projectName = JArr(<<<<"R","&","D">>, <<"\"","<","L","a","b",">","\"">>>>)]}

FInit ==
  /\ variant = "server"
  /\ pc = "off"
  /\ spec = NoSpec
  /\ safe = safeOf("server", NoSpec)
  /\ idx = 0
  /\ html = << >>
  /\ lastErr = NoErr
  /\ tried = << >>
  /\ response = NoResponse
  /\ inflight = {}
  /\ calls = << >>
  /\ outcomes = << >>
  /\ result = NoResult
  /\ timers = {}
  /\ fstage = "input"
  /\ fv \in Variants
  /\ fparts \in PartsSet
  /\ fspec \in FinalizerSpecs
  /\ fcur = TextOf(fparts)
  /\ fprev = << >>

\* stripFences(text)
FStrip ==
  /\ fstage = "input"
  /\ fstage' = "stripped"
  /\ fcur' = stripFences(fv, fcur)
  /\ fprev' = fcur
  /\ UNCHANGED <<hvars, fv, fparts, fspec>>

\* ensureFullDoc(html, spec), of the text as it is or of the stripped text
FFinalize ==
  /\ fstage \in {"input", "stripped"}
  /\ fstage' = "final"
  /\ fcur' = ensureFullDoc(fv, fcur, fspec)
  /\ fprev' = fcur
  /\ UNCHANGED <<hvars, fv, fparts, fspec>>

\* ensureFullDoc applied to its own output
FFinalizeAgain ==
  /\ fstage = "final"
  /\ fstage' = "final2"
  /\ fcur' = ensureFullDoc(fv, fcur, fspec)
  /\ fprev' = fcur
  /\ UNCHANGED <<hvars, fv, fparts, fspec>>

FNext == FStrip \/ FFinalize \/ FFinalizeAgain

FinalizerSpec == FInit /\ [][FNext]_vars

(***************************************************************************)
(* Claims                                                                  *)
(***************************************************************************)
Handling == pc \in {"await", "extract", "done"}

\* spec.brief is missing: absent, the empty string, or no string
BriefMissing(sp) == ~sp.present \/ sp.brief.t # "str" \/ sp.brief.s = << >>

\* C1: whenever spec.brief is missing (absent, empty, or any non-string value) the
\* response is 400 "spec.brief is required" and no provider call is issued.
C1_MissingBriefIs400 ==
  (Handling /\ BriefMissing(spec)) => (response = R400 /\ calls = << >>)

\* the attempt failed by an adapter error or by the timeout
Failed(o) == o.kind \in {"neterr", "http", "reject", "timeout"}

\* the text the adapter returned for the attempt
ReturnedText(o) == IF variant = "server" THEN callOpenRouter(o).text
                   ELSE extractTextFromModelResult(o)

\* the attempt returned an HTML document of at least n characters
ValidHtml(o, n) ==
  /\ o.kind \in {"content", "text"}
  /\ hasHtml(stripFences(variant, o.text))
  /\ Len(stripFences(variant, o.text)) >= n

\* the attempts 1..k-1 failed and attempt k returned valid HTML of at least n characters
FirstSuccessAt(k, n) ==
  /\ Len(outcomes) >= k
  /\ \A j \in 1..(k - 1) : Failed(outcomes[j])
  /\ ValidHtml(outcomes[k], n)

\* the response is 200 with the finalized output of attempt k, tried the first k ids
AnsweredBy(k) ==
  /\ pc = "done"
  /\ response = R200(ensureFullDoc(variant, stripFences(variant, outcomes[k].text), spec))
  /\ tried = SubSeq(modelIds(variant), 1, k)

\* C2 as written: if candidates 1..k-1 fail and candidate k returns valid HTML of at
\* least 50 characters, the response is 200 with candidate k's finalized output and
\* the attempted-list is exactly the first k identifiers.
C2_AtLeast50 ==
  \A k \in 1..Len(modelIds(variant)) : FirstSuccessAt(k, MinHtmlLen) => AnsweredBy(k)

\* C2 as amended: the same for valid HTML of more than 50 characters.
C2_MoreThan50 ==
  \A k \in 1..Len(modelIds(variant)) : FirstSuccessAt(k, MinHtmlLen + 1) => AnsweredBy(k)

C2_Witness == FirstSuccessAt(3, MinHtmlLen + 1) /\ AnsweredBy(3)

\* C3: if every candidate's call fails or returns output shorter than 20 characters,
\* the response is 502 "Model did not return usable HTML" with tried the full list.
C3_AllShortIs502 ==
  (/\ pc = "done"
   /\ outcomes # << >>
   /\ \A j \in 1..Len(outcomes) :
        Failed(outcomes[j]) \/ Len(ReturnedText(outcomes[j])) < MinUsableLen)
  => response = R502(lastErr, modelIds(variant))

\* C4: the response is 200 only if the loop ended because a candidate produced
\* finalized HTML longer than the 50-character threshold.
C4_OkOnlyAboveThreshold ==
  response.status = 200 =>
    /\ ~Failed(outcomes[Len(outcomes)])
    /\ Len(response.html) > MinHtmlLen

\* C5: a provider call that never completes does not block the request forever:
\* every awaited attempt leads to a response.
C5_AwaitLeadsToResponse == (pc = "await") ~> (pc = "done")

\* C6: at no moment are two provider calls of the same request outstanding.
C6_OneCallOutstanding == Cardinality(inflight) <= 1

\* the slugified inputs in their order, without the empty slugs and without "home"
OtherSlugs(pages) ==
  SelectSeq([i \in 1..Len(pages.a) |-> toKebab(pages.a[i])],
            LAMBDA p : p # << >> /\ p # Home)

\* C7: for every input pages array the normalized page list of part_003 has "home"
\* as its first element, and its other entries are the slugified inputs in their
\* original order.
C7_HomeFirst ==
  (variant = "part003" /\ pc \in {"await", "extract"} /\ spec.pages.t = "arr")
  => /\ Head(safe.pages) = Home
     /\ SelectSeq(safe.pages, LAMBDA p : p # Home) = OtherSlugs(spec.pages)

\* the text holds an <html tag
HasHtmlOpenTag(s) == \E i \in 1..Len(s) : MatchAtCI(s, i, <<"<","h","t","m","l">>)

\* C8: every 200 response carries an html value that contains a root <html element.
C8_OkHasHtmlRoot == response.status = 200 => HasHtmlOpenTag(response.html)

\* C9: ensureFullDoc is idempotent: applied to its own output it returns it unchanged.
C9_Idempotent == fstage = "final2" => fcur = fprev

\* the second application met a wrapped fragment
C9_Witness == fstage = "final2" /\ ~hasHtml(fparts.body) /\ fparts.open = << >> /\ Len(fcur) > Len(TextOf(fparts))

FenceFree(s) == ~Contains(s, Fence)

\* the text is a fence-free body between a leading fence, ``` or ```html and a line
\* break, and a trailing fence
Fenced(p) ==
  /\ p.open \in {<<BQ,BQ,BQ,"h","t","m","l","\n">>, <<BQ,BQ,BQ,"H","T","M","L","\n">>, <<BQ,BQ,BQ,"\n">>}
  /\ p.close # << >>
  /\ FenceFree(p.body)

\* C10 as written: stripFences removes a leading fence and a trailing fence, and
\* returns every fence-free input unchanged, also one that begins or ends with
\* whitespace.
C10_FenceFreeUnchanged ==
  fstage = "stripped" =>
    /\ Fenced(fparts) => fcur = trim(fparts.body)
    /\ FenceFree(fprev) => fcur = fprev

\* C10 as amended: stripFences removes a leading fence and a trailing fence, and
\* returns every fence-free input with its leading and trailing whitespace removed
\* and otherwise unchanged.
C10_FenceFreeTrimmed ==
  fstage = "stripped" =>
    /\ Fenced(fparts) => fcur = trim(fparts.body)
    /\ FenceFree(fprev) => fcur = trim(fprev)

C10_Witness ==
  /\ fstage = "stripped"
  /\ Fenced(fparts)
  /\ fparts.body # << >>
  /\ fcur = trim(fparts.body)
  /\ fcur # fprev

\* the entities of the replacement table
Entities == {<<"&","a","m","p",";">>, <<"&","l","t",";">>, <<"&","g","t",";">>, <<"&","q","u","o","t",";">>, <<"&","#","3","9",";">>}

\* t holds none of the raw characters < > " ' and no & but the start of an entity
EntityEscaped(t) ==
  \A i \in 1..Len(t) :
    /\ t[i] \notin {"<", ">", "\"", "'"}
    /\ t[i] = "&" => \E e \in Entities : MatchAt(t, i, e)

RECURSIVE RunEnd(_, _, _)
\* the first position j >= i that is past the end of s or holds the character stop
RunEnd(s, i, stop) == IF i > Len(s) \/ s[i] = stop THEN i ELSE RunEnd(s, i + 1, stop)

\* the text placed at position i of doc runs to the closing pattern close, which
\* starts with the character that ends the text, and is escaped
PlacedEscaped(doc, i, close) ==
  LET j == RunEnd(doc, i, close[1])
  IN  MatchAt(doc, j, close) /\ EntityEscaped(SubSeq(doc, i, j - 1))

\* the length of the shell before the wrapped html
ShellHeadLen(doc, body) == Len(doc) - Len(body) - Len(<<"<","/","b","o","d","y",">","\n","<","/","h","t","m","l",">">>)

\* the raw characters of the replacement table
NeedsEscape(v) == v.t = "str" /\ \E i \in 1..Len(v.s) : v.s[i] \in {"&", "<", ">", "\"", "'"}

\* C11: when ensureFullDoc wraps a fragment in the document shell, the text placed
\* in <title> and in the meta content attributes holds none of the raw characters
\* < > " ' and no & other than the start of an entity.
C11_ShellTextEscaped ==
  (fstage = "final" /\ ~hasHtml(fprev)) =>
    \A i \in 1..ShellHeadLen(fcur, fprev) :
      /\ MatchAt(fcur, i, <<"<","t","i","t","l","e",">">>) =>
            PlacedEscaped(fcur, i + Len(<<"<","t","i","t","l","e",">">>), <<"<","/","t","i","t","l","e",">">>)
      /\ MatchAt(fcur, i, <<" ","c","o","n","t","e","n","t","=","\"">>) =>
            PlacedEscaped(fcur, i + Len(<<" ","c","o","n","t","e","n","t","=","\"">>), <<"\"","/",">">>)

\* a fragment was wrapped with a title that holds both quotes and, in part_003, a
\* description that holds them
C11_Witness ==
  /\ fstage = "final"
  /\ ~hasHtml(fprev)
  /\ NeedsEscape(fspec.projectName)
  /\ Contains(fspec.projectName.s, <<"'">>)
  /\ Contains(fcur, <<"<","t","i","t","l","e",">","&","l","t",";","b","&","g","t",";","O","&","#","3","9",";","N",
      "e","i","l","&","l","t",";","/","b","&","g","t",";","<","/","t","i","t","l","e",">">>)
  /\ fv = "part003" => Contains(fcur, <<" ","c","o","n","t","e","n","t","=","\"","x"," ","&","g","t",";"," ","y","&","#","3","9",";",
      "s"," ","&","q","u","o","t",";","z","&","q","u","o","t",";","\"","/",">">>)

\* C12: when the provider answers with a 2xx status but no text content,
\* callOpenRouter raises, so the attempt is recorded as failed, the loop advances
\* to the next candidate and the attempt never ends in a 200.
C12_EmptyContentRaises ==
  \A j \in 1..Len(outcomes) :
    (variant = "server" /\ outcomes[j].kind = "nocontent") =>
      /\ ~callOpenRouter(outcomes[j]).ok
      /\ j < Len(modelIds(variant)) => Len(calls) > j
      /\ response.status = 200 => Len(outcomes) > j

\* the attempt's output was finalized: the call returned and, in part_003, the
\* text was long enough and ensureFullDoc did not throw
Finalized(o) ==
  IF variant = "server" THEN callOpenRouter(o).ok
  ELSE /\ o.kind \notin {"reject", "timeout"}
       /\ ~TooShort(extractTextFromModelResult(o))
       /\ ~FinalizeThrows(variant, stripFences(variant, extractTextFromModelResult(o)), spec)

\* the finalized HTML of the attempt
FinalHtml(o) == ensureFullDoc(variant, stripFences(variant, ReturnedText(o)), spec)

\* the finalized HTML of attempt j exceeds the 50-character threshold
Exceeds(j) == Finalized(outcomes[j]) /\ Len(FinalHtml(outcomes[j])) > MinHtmlLen

\* the provider calls issued are a prefix of the candidate list in list order, and
\* none is issued after the first candidate whose finalized HTML exceeds the threshold
CallsArePrefix ==
  /\ Len(calls) <= Len(modelIds(variant))
  /\ calls = SubSeq(modelIds(variant), 1, Len(calls))
  /\ \A j \in 1..Len(outcomes) : Exceeds(j) => Len(calls) = j

\* C13 as written: the provider calls issued are a prefix of the candidate list, no
\* call follows the first success, and tried always equals the list of candidates
\* called so far.
C13_TriedAlwaysCalls == CallsArePrefix /\ tried = calls

\* C13 as amended: the same, with tried equal to the candidates called so far
\* whenever no call is awaited, and in server.js, which appends the identifier
\* when the call has settled, equal to the candidates called before the awaited one.
C13_TriedSettledCalls ==
  /\ CallsArePrefix
  /\ IF variant = "server" /\ pc = "await"
     THEN tried = SubSeq(calls, 1, Len(calls) - 1)
     ELSE tried = calls

\* the second candidate answered after the first failed, and no third was called
C13_Witness ==
  /\ pc = "done"
  /\ response.status = 200
  /\ Len(outcomes) = 2
  /\ Failed(outcomes[1])
  /\ Exceeds(2)
  /\ calls = SubSeq(modelIds(variant), 1, 2)
  /\ tried = calls

\* attempt j failed: a network error, a non-2xx status, a rejection, the timeout,
\* or an exception thrown while its output was finalized
AttemptFailed(j) ==
  \/ Failed(outcomes[j])
  \/ /\ outcomes[j].kind = "text"
     /\ ~TooShort(outcomes[j].text)
     /\ FinalizeThrows(variant, stripFences(variant, outcomes[j].text), spec)

\* C14: a failure of a single provider attempt never produces a 500 response and
\* never ends the loop early: it only leads to the next candidate being tried or,
\* after the last candidate, to the aggregate 502.
C14_FailureAbsorbed ==
  \A j \in 1..Len(outcomes) :
    AttemptFailed(j) =>
      /\ response.status # 500
      /\ j < Len(modelIds(variant)) => Len(calls) > j
      /\ (j = Len(modelIds(variant)) /\ pc = "done") =>
           response = R502(lastErr, modelIds(variant))

\* the normalized spec of part_003 with every field empty
EmptySafe ==
  [projectName |-> JStr(<< >>), brief |-> JStr(<< >>), primaryColor |-> JStr(<< >>),
   style |-> JStr(<< >>), tone |-> JStr(<< >>), pages |-> << >>]

\* the most the joined pages list may hold: the claim names no figure, the largest
\* clamp of the normalizer is allowed
PagesCap == MaxBriefLen

\* the fixed constant the clamps give: the template, projectName and the pages list
\* twice, and brief, primaryColor, style and tone once
PromptCap ==
  Len(Prompt(EmptySafe)) + 2 * MaxFieldLen + MaxBriefLen + MaxColorLen + 2 * MaxFieldLen
    + 2 * PagesCap

\* C15: in part_003 every user-supplied field interpolated into the prompt is
\* length-clamped by the normalizer, the pages list included, so the length of the
\* prompt never exceeds a fixed constant.
C15_PromptBounded ==
  (variant = "part003" /\ pc \in {"await", "extract"}) =>
    /\ Len(safe.projectName.s) <= MaxFieldLen
    /\ Len(safe.brief.s) <= MaxBriefLen
    /\ Len(safe.primaryColor.s) <= MaxColorLen
    /\ Len(safe.style.s) <= MaxFieldLen
    /\ Len(safe.tone.s) <= MaxFieldLen
    /\ Len(Join(safe.pages, <<","," ">>)) <= PagesCap
    /\ Len(Prompt(safe)) <= PromptCap

\* the error message of a failed attempt
ErrorOf(o) ==
  IF variant = "server" THEN callOpenRouter(o).msg
  ELSE IF o.kind \in {"reject", "timeout"} THEN o.msg
  ELSE "s.replace is not a function"

\* C16: on a 502 response details is the error message of the last failed attempt:
\* every failed attempt, by adapter error or by under-length output, replaces the
\* retained last error, so details never reports the error of an earlier candidate
\* when a later candidate failed for a different reason.
C16_DetailsOfLastFailure ==
  response.status = 502 =>
    LET n == Len(outcomes)
    IN  /\ response.details.has
        /\ AttemptFailed(n) => response.details = Err(ErrorOf(outcomes[n]))
        /\ ~AttemptFailed(n) =>
             \A j \in 1..(n - 1) :
               AttemptFailed(j) => response.details # Err(ErrorOf(outcomes[j]))

=============================================================================
